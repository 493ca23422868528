------------------------------ MODULE MCTxLog ------------------------------
\* The instance of TxLog for TLC: all its constants are model values.
EXTENDS TxLog
=============================================================================
