------------------------------ MODULE MCFiles ------------------------------
(* Small disks: the mount point and one directory a below it, with few      *)
(* names and up to four entries, of which three fit a sector.               *)
EXTENDS Files, TLC

Pieces == {"", "mnt", "hda", "a", "b"}

File(name, size_) == [kind |-> "file", name |-> name, size |-> size_]
Other(kind, name) == [kind |-> kind, name |-> name, size |-> 0]

\* Sizes: nothing, less than a sector, one, several with a rest, and two that
\* are negative as an int32_t, the first of them and a later one.
FileSizes == {0, 3, 4, 8, 9, 14, 32, 45}

Subs == {<<Other("dot", "b"), Other("dot", "a")>>,
         <<Other("bare", "b"), File("b", 5), File("a", 6)>>}

Vols ==
    {<<File("b", n), Other("dir", "a")>> : n \in FileSizes}
    \cup {<<Other("dir", "a"), Other("end", "b"), File("b", 2)>>,
          <<File("a", 1), Other("dir", "a"), File("a", 2)>>,
          <<File("b", 3), File("a", 7), Other("dir", "a")>>,
          <<Other("dir", "a"), File("b", 9), File("b", 10), File("a", 2)>>}

MCDisks == {(Mount :> v) @@ (Append(Mount, "a") :> s) : v \in Vols, s \in Subs}

MCArgs == {<<p>> : p \in Pieces} \cup {<<p, q>> : p, q \in Pieces}
=============================================================================
