------------------------- MODULE MCRegulatoryStore -------------------------
(***************************************************************************)
(* A small instance of RegulatoryStore: the forks and corrections of one   *)
(* workflow, a workflow of a second mine beside it, and the answers and    *)
(* acknowledgements of the first.                                          *)
(***************************************************************************)
EXTENDS StoreImplementsLedger

CONSTANTS m1, m2,                          \* mines
          a1, a2, f2, a3, f3, w2, b1, c2, r1, r2, r3, r4, r5, q1, q2,
          k1, k2, k3, k4, k5, k6, k7, k8, k9,   \* idempotency keys
          p1, p2,                          \* reporting periods
          v, w,                            \* payloads
          data,                            \* the finding category
          e1, e2,                          \* response ids
          none

MCMine == {m1, m2}
MCMessageId == {a1, a2, f2, a3, f3, w2, b1, c2, r1, r2, r3, r4, r5, q1, q2}
MCKey == {k1, k2, k3, k4, k5, k6, k7, k8, k9}
MCPeriod == {p1, p2}
MCBody == {v, w}
MCCategory == {data}
MCWireId == {e1, e2}

Sub(i, k, m, r, p, c, t, q, b) ==
  [id |-> i, key |-> k, mine |-> m, rev |-> r, pred |-> p, corr |-> c,
   cause |-> t, period |-> q, body |-> b]

\* The chain a1 <- a2 <- a3, the fork f2 <- f3, a revision of another period
\* (w2) and one that m2 presents of m1's workflow (c2); m2 has a workflow of
\* its own (b1), under the key of a1.
MCSubmissions ==
  {Sub(a1, k1, m1, 1, none, a1, none, p1, v),
   Sub(a2, k2, m1, 2, <<a1, v>>, a1, <<"submission", a1>>, p1, w),
   Sub(a3, k3, m1, 3, <<a2, w>>, a1, <<"report", a2>>, p1, v),
   Sub(f2, k4, m1, 2, <<a1, v>>, a1, <<"response", r1>>, p1, w),
   Sub(f3, k3, m1, 3, <<f2, w>>, a1, <<"submission", f2>>, p1, w),
   Sub(w2, k5, m1, 2, <<a1, v>>, a1, <<"submission", a1>>, p2, w),
   Sub(b1, k1, m2, 1, none, b1, none, p1, v),
   Sub(c2, k2, m2, 2, <<a1, v>>, a1, <<"submission", a1>>, p1, w)}

Resp(i, k, x, s, r, p, c, t, b) ==
  [id |-> i, key |-> k, mine |-> m1, wire |-> x, report |-> s, rev |-> r,
   pred |-> p, cats |-> c, corrected |-> t, corr |-> a1, body |-> b]

\* r2 carries the batch of r1 in a new envelope; r3 revises r1 and names the
\* correction a2; r4 answers the report of a2 but names a1 as its correction,
\* and r5 gives the response id of r1 another text.
MCResponses ==
  {Resp(r1, k6, e1, a1, 1, none, {data}, none, v),
   Resp(r2, k7, e1, a1, 1, none, {data}, none, v),
   Resp(r3, k8, e2, a1, 2, r1, {data}, a2, v),
   Resp(r4, k9, e2, a2, 1, none, {data}, a1, w),
   Resp(r5, k9, e1, a1, 1, none, {data}, none, w)}

\* q1 has the key of a3 and of f3, q2 that of r1: whichever comes first.
MCAcks ==
  {[id |-> q1, key |-> k3, mine |-> m1, report |-> a1, corr |-> a1],
   [id |-> q2, key |-> k6, mine |-> m1, report |-> a1, corr |-> a1]}
============================================================================
