-------------------------------- MODULE MCDisk --------------------------------
EXTENDS Disk

\* Two disks on one bus; two disks of which one has a packet drive beside it;
\* one disk where the kernel looks third.
BoardsDef == {
    <<"disk", "disk", "float", "float">>,
    <<"disk", "none", "packet", "disk">>,
    <<"none", "none", "disk", "none">>}

MCBoards == {[p \in Positions |-> b[p + 1]] : b \in BoardsDef}
=============================================================================
