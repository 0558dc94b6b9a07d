---------------------------- MODULE MCIsoTpLink ----------------------------
(* Small instances of IsoTpLink for TLC. A First Frame carries 2 bytes and a
   Consecutive Frame 2, sequence numbers wrap at 3. *)
EXTENDS IsoTpLink

CONSTANTS handset, bridge

OnePeer == {bridge}
MCLengths == {1, 4, 8, 9}   \* Single Frame, FF + 1, FF + 3 CFs, over-long
Stray(kind, len, seq) ==
  [kind |-> kind, src |-> handset, len |-> len, seq |-> seq, chunk |-> Chunk(handset, 0, 0)]
\* Frames of the other peer that no compliant sender sends: empty and over-long
\* Single Frames, First Frames that announce 0, fewer bytes than they carry, or
\* too many, unexpected Consecutive Frames and Flow Controls.
MCStrays == {Stray("SF", n, 0) : n \in {0, 2}}
       \cup {Stray("FF", n, 0) : n \in {0, 2, MaxPayload, MaxPayload + 1}}
       \cup {Stray("CF", 0, n) : n \in 0..(SeqMod - 1)}
       \cup {Stray("FC", 0, 0)}

\* The instance is one the theorems about IsoTpLink speak of.
ASSUME MCCompliant == Compliant
=============================================================================
