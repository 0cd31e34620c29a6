---------------------------- MODULE SerialCable ----------------------------
(***************************************************************************)
(* What the Dialog Serial Port Service promises                            *)
(* (src/features/dsps_ble_peripheral/readme.md): a serial cable between    *)
(* two ports.  What goes in at one end comes out at the other, in order    *)
(* and once; only a cable that may be unplugged loses anything.            *)
(***************************************************************************)
EXTENDS Integers, Sequences

CONSTANTS Ends,   \* the two ends
          K       \* messages are numbered modulo K, which is positive

VARIABLES firm,  \* whether the cable cannot be unplugged
          wire,  \* wire[e]: the messages that went in at end e and are still to come out
          in,    \* in[e]: the number of the next message that goes in at e
          out    \* out[e]: one more than the number of the last one that came out of e's wire

Following(k) == (k + 1) % K

Init == /\ firm \in BOOLEAN
        /\ wire = [e \in Ends |-> <<>>]
        /\ in = [e \in Ends |-> 0]
        /\ out = [e \in Ends |-> 0]

Put(e) == /\ wire' = [wire EXCEPT ![e] = Append(@, in[e])]
          /\ in' = [in EXCEPT ![e] = Following(@)]
          /\ out' = out

Get(e) == /\ wire[e] # <<>>
          /\ out' = [out EXCEPT ![e] = Following(Head(wire[e]))]
          /\ wire' = [wire EXCEPT ![e] = Tail(@)]
          /\ in' = in

\* t is what is left of w without a stretch of it.
Shorter(t, w) ==
  /\ Len(t) < Len(w)
  /\ \E i \in 0..Len(w), j \in 1..Len(w)+1 : t = SubSeq(w, 1, i) \o SubSeq(w, j, Len(w))

Lose == /\ ~firm
        /\ \A e \in Ends : wire'[e] = wire[e] \/ Shorter(wire'[e], wire[e])
        /\ DOMAIN wire' = Ends
        /\ UNCHANGED <<in, out>>

Next == Lose \/ \E e \in Ends : Put(e) \/ Get(e)
Spec == Init /\ [][Next /\ firm' = firm]_<<firm, wire, in, out>>
=============================================================================
