---------------------------- MODULE FileContent ----------------------------
(***************************************************************************)
(* What a regular file promises its users: it is a byte sequence; a       *)
(* write of len bytes of value v at pos stores them, extending the file   *)
(* when it ends past the old end, and a gap between the old end and pos   *)
(* reads as zeros; growing the file (truncate up) appends zeros; nothing  *)
(* else changes what a read returns.                                      *)
(***************************************************************************)
EXTENDS Naturals, Sequences

CONSTANTS MaxSize, Data, Zero

VARIABLE file

Init == file \in UNION {[1 .. n -> Data] : n \in 0 .. MaxSize}

\* The file old becomes new by a write of len copies of v at pos.
WriteStep(old, new, pos, len, v) ==
  /\ len > 0 /\ pos + len <= MaxSize
  /\ new = [i \in 1 .. IF pos + len > Len(old) THEN pos + len ELSE Len(old) |->
              CASE pos < i /\ i <= pos + len -> v
                [] i <= Len(old)               -> old[i]
                [] OTHER                       -> Zero]

\* The file old becomes new by growing to n with zeros.
GrowStep(old, new, n) ==
  /\ Len(old) < n /\ n <= MaxSize
  /\ new = [i \in 1 .. n |-> IF i <= Len(old) THEN old[i] ELSE Zero]

\* A step is a write or a growth.  file and file' are bound once, as
\* values, so that a refinement mapping substituted for file is evaluated
\* once per step rather than once per candidate write.
Next ==
  \E old \in {file}, new \in {file'} :
     \/ \E pos \in 0 .. MaxSize, len \in 1 .. MaxSize, v \in Data :
          WriteStep(old, new, pos, len, v)
     \/ \E n \in 1 .. MaxSize : GrowStep(old, new, n)

Spec == Init /\ [][Next]_file
=============================================================================
