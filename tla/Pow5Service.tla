---------------------------- MODULE Pow5Service ----------------------------
(***************************************************************************)
(* What ryu_bigint_from_pow5_stride promises its callers: the answer to a  *)
(* call is a function of its argument alone.  Whatever the other threads   *)
(* do, asking for 5^p yields Result[p]: no caller can tell whether it      *)
(* built the anchor table, waited for another thread or found it ready.    *)
(***************************************************************************)
CONSTANTS
  Threads,      \* the threads that format numbers
  Exponents     \* the exponents they ask for

VARIABLES
  Result,       \* Result[p]: the answer to a call for 5^p, the same for ever
  call          \* call[t]: <<"idle">>, <<"busy", p>> or <<"done", p, answer>>

Init == call = [t \in Threads |-> <<"idle">>]

Begin(t, p) == /\ call[t] = <<"idle">>
               /\ call' = [call EXCEPT ![t] = <<"busy", p>>]

\* The one moment at which a call takes effect.
Answer(t, p) == /\ call[t] = <<"busy", p>>
                /\ call' = [call EXCEPT ![t] = <<"done", p, Result[p]>>]

Return(t, p) == /\ call[t] = <<"done", p, Result[p]>>
                /\ call' = [call EXCEPT ![t] = <<"idle">>]

Next == \E t \in Threads, p \in Exponents :
          /\ Begin(t, p) \/ Answer(t, p) \/ Return(t, p)
          /\ UNCHANGED Result

Spec == Init /\ [][Next]_<<Result, call>>
=============================================================================
