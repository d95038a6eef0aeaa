--------------------------- MODULE MCMarketplace ---------------------------
(***************************************************************************)
(* Two quants after one handle, one of whom tries another; both submit a   *)
(* model that is new and one that belongs to the first of them, and the    *)
(* second one a model of nobody.                                           *)
(***************************************************************************)
EXTENDS Marketplace, TLC

CONSTANTS u1, u2, h1, h2, fresh, owned, seeded, r1, r2, r3, s1, s2, s3, s4, s5

MCUserOf == r1 :> u1 @@ r2 :> u2 @@ r3 :> u2
MCHandleOf == r1 :> h1 @@ r2 :> h1 @@ r3 :> h2
MCAuthorOf == s1 :> u1 @@ s2 :> u2 @@ s3 :> u1 @@ s4 :> u2 @@ s5 :> u2
MCModelOf == s1 :> fresh @@ s2 :> fresh @@ s3 :> owned @@ s4 :> owned @@ s5 :> seeded
MCOwnerAtStart == owned :> u1 @@ seeded :> None
MCMaxBuilds == [w \in {u1, u2} \X {fresh, owned, seeded} |->
  IF w \in {<<u1, owned>>} THEN 2 ELSE IF w = <<u1, seeded>> THEN 0 ELSE 1]

Started == {s \in Submissions : client[s] # "new"}
Packaged == {w \in Workspaces : dist[w].artifact # 0}

\* Bounds: at most two models packaged and submitted, after all registrations;
\* one is packaged again when its submission is the only one.
Scenario ==
  /\ Cardinality(Started) <= 2
  /\ Started # {} => \A r \in Registrations : reg[r] \in {"registered", "refused", "error"}
  /\ dist[<<u1, owned>>].artifact = 2 => Started \subseteq {s3}
  /\ Cardinality(Packaged) <= 2 /\ (Packaged # {} => reg[r3] # "new")
=============================================================================
