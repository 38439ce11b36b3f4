------------------------------ MODULE MCFraming ------------------------------
(* Small buffers for Framing: up to three records, the buffer cut at every *)
(* byte or longer than the records, every header overwritten in turn.      *)
EXTENDS Framing, TLC

H(len, extra) == [len |-> len, extra |-> extra]

MCGarbage == {H(0, 0), H(1, 1), H(3, 9)}

Heads(S) == UNION {[1 .. n -> S] : n \in 0 .. 3}

Call(kind, start, len, declared, laid, damaged, cap, sector) ==
  [kind |-> kind, start |-> start, len |-> len, declared |-> declared, laid |-> laid,
   damaged |-> damaged, cap |-> cap, sector |-> sector]

(* The records laid one behind the other. *)
Layout(kind, start, sector, heads) ==
  LET At[i \in DOMAIN heads] ==
        LaidFrom(kind, IF i = 1 THEN start ELSE At[i - 1] + LaidSize(kind, heads[i - 1]), sector)
  IN [i \in DOMAIN heads |-> [at |-> At[i], size |-> LaidSize(kind, heads[i]), head |-> heads[i]]]

ArrayCalls ==
  {Call("array", 1, n, d, Layout("array", 1, 1, hs), x, 0, 1) :
     n \in 0 .. 11, d \in {4, 7, 9, 12}, x \in 0 .. 2, hs \in Heads({H(0, 0), H(1, 0), H(2, 0)})}

PackedCalls(kind) ==
  {Call(kind, 0, n, 0, Layout(kind, 0, 1, hs), x, 0, 1) :
     n \in 0 .. 12, x \in 0 .. 2, hs \in Heads({H(1, 0), H(1, 2), H(2, 1)})}

(* A segment decodes to at most a sector; sectors too small for a header   *)
(* are seen in damaged superblocks only.                                   *)
LzoCalls ==
  {Call("lzo", LzoLen, n, d, Layout("lzo", LzoLen, s, hs), x, cap, s) :
     n \in 7 .. 16, d \in {9, 13, 16}, x \in 0 .. 2, cap \in {3, 6},
     s \in {4, 5}, hs \in Heads({H(1, 2), H(2, 3)})}
    \cup {Call("lzo", LzoLen, n, d, <<>>, 0, cap, s) :
            n \in 0 .. 12, d \in {1, 9, 13}, cap \in {0, 6}, s \in {0, 1, 4}}

FixedCalls ==
  {Call(kind, 1, n, d, <<>>, 0, 0, 1) :
     kind \in DOMAIN FixedSize, n \in 0 .. 9, d \in {0, 2, 5}}

MCCalls == ArrayCalls \cup PackedCalls("xattr") \cup PackedCalls("ref") \cup LzoCalls \cup FixedCalls
=============================================================================
