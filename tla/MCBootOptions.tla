---------------------------- MODULE MCBootOptions -----------------------------
(* Instances of BootOptions for TLC. *)
EXTENDS BootOptions

CONSTANTS v1,      \* a volume whose path has a hard drive node
          v2,      \* a volume whose path has none, such as a CD
          n1, n2   \* two file names

Spelled(n) == [name |-> n, slash |-> TRUE]
Network == OptionOf(<< HwNode(v1) >>)
Long(v, n) == OptionOf(CreateBootOptionDevicePath(v, Spelled(n), FALSE))
Short(v, n) == OptionOf(CreateBootOptionDevicePath(v, Spelled(n), TRUE))

\* One file, in NVRAM in its short form or not at all.
OneFile == {<< v1, Spelled(n1) >>}
TwoContents == {Network, Short(v1, n1)}

\* Two files on each volume, each form of them, and an option that does not parse.
FourFiles == {v1, v2} \X {Spelled(n1), Spelled(n2)}
ManyContents == {Unparsable, Network, Long(v1, n1), Short(v1, n1), Long(v1, n2), Long(v2, n1)}
===============================================================================
