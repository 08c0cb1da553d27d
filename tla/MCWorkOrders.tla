--------------------------- MODULE MCWorkOrders -----------------------------
(* The seed's workflow around its four gates, with a shortcut to execution *)
(* that skips gate 3, for an order with at most one activity, whose        *)
(* checklists are one of each moment.  The other type has a workflow of    *)
(* its own, whose stages are not in this one but for approval and the      *)
(* preparation of the permit.                                              *)
EXTENDS WorkOrders, TLC

CONSTANTS
  borrador, aprobada, plan_aprobado, preparacion, checklists_ok, ejecucion,
  revision, cerrada, rechazada, a1, art, loto, cierre, seed, other

Arc(x, y) == [from |-> x, to |-> y]
MCTransitions ==
  { Arc(borrador, aprobada), Arc(borrador, rechazada),
    Arc(aprobada, plan_aprobado), Arc(aprobada, ejecucion), Arc(plan_aprobado, preparacion),
    Arc(preparacion, checklists_ok), Arc(preparacion, plan_aprobado),
    Arc(checklists_ok, ejecucion), Arc(ejecucion, revision),
    Arc(revision, cerrada), Arc(revision, ejecucion) }

MCStages ==
     seed :> [folio |-> aprobada, freeze |-> plan_aprobado, suggest |-> preparacion,
              gate |-> checklists_ok, execute |-> ejecucion, closure |-> revision]
  @@ other :> [folio |-> aprobada, freeze |-> None, suggest |-> preparacion,
               gate |-> None, execute |-> None, closure |-> None]

Rule(t, moment, ptw) == [t |-> t, moment |-> moment, mandatory |-> TRUE, ptw |-> ptw]
MCRules == { Rule(art, "AUTHORIZATION", FALSE), Rule(loto, "EXECUTION", TRUE),
             Rule(cierre, "CLOSURE", FALSE) }

(* The order takes the other type once it is approved, passes the gates as  *)
(* that type, and returns to its own before it closes.                     *)
MCRetypes == { [at |-> aprobada, to |-> other], [at |-> revision, to |-> seed] }
MCRetypesInExecution == { [at |-> aprobada, to |-> other], [at |-> ejecucion, to |-> seed] }

(* By hand: a check of the activity, by the template of the closing        *)
MCManualRows == { <<cierre, a1>> }

(* By hand: the template of the mandatory authorisation checklist *)
MCManualArt == { <<art, None>> }

MCNoRules == {}
=============================================================================
