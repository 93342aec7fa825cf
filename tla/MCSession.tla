----------------------------- MODULE MCSession -----------------------------
(* Instances of Session for TLC.                                           *)
EXTENDS Session, TLC

CONSTANTS q1, q2, s1, v1, r1

\* A query and a schema read on connectors of their own, a parse, and a run
\* whose second stage needs a connector the first one did not.
SharedKind == q1 :> "query" @@ s1 :> "schema" @@ v1 :> "parse" @@ r1 :> "run"
SharedWants ==
  q1 :> <<{"delta"}>> @@ s1 :> <<{"iceberg"}>> @@ v1 :> <<{}>>
  @@ r1 :> <<{}, {"delta"}>>
=============================================================================
