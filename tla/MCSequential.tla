---------------------------- MODULE MCSequential ----------------------------
\* The instance of Sequential for TLC.
EXTENDS Sequential

MCAlphabet == [line |-> Char, header |-> 1..5]

MCTextSize == [line |-> 5, header |-> 5]

\* A pipeline of three, a list with a redirection in a pipe, a list behind the
\* bar of a pipe in the background, and a line that is not a command.
MCLines ==
    {<<"a", "|", "a", "|", "a">>,
     <<"(", "a", ";", "a", ">", "a", ")", "|", "a">>,
     <<"a", "|", "(", "a", "&", ";", "a", ")", "&">>,
     <<"a", "&", "a">>}

\* One read-only segment of less than a page, and a second one behind it.
MCImages ==
    {<< [vaddr |-> 0, memsz |-> 1, filesz |-> 1, write |-> FALSE] >>,
     << [vaddr |-> 0, memsz |-> 1, filesz |-> 1, write |-> FALSE],
        [vaddr |-> 2, memsz |-> 2, filesz |-> 1, write |-> TRUE] >>}
MCGrow == {-3, 1, 3}
=============================================================================
