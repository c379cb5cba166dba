------------------------------ MODULE ViewsMC ------------------------------
EXTENDS Views

CONSTANT MaxLength      \* the longest container

Numbered == {[j \in 1 .. n |-> j] : n \in 0 .. MaxLength}

ListsOfLists == {<< <<>>, <<1, 2>>, <<>> >>, << <<1>>, <<>>, <<3>> >>, << <<>> >>}
=============================================================================
