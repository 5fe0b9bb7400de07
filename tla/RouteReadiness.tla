---------------------------- MODULE RouteReadiness ----------------------------
(***************************************************************************)
(* Models, providers and the bindings that route one to the other, as the   *)
(* teachers edit them (internal/controlplane/teacher.go).                   *)
(*                                                                         *)
(* An update is a transaction of several statements at READ COMMITTED: each *)
(* query sees what is committed when it runs and locks nothing, so every    *)
(* query is a step of its own.  The UPDATE at the end changes one row, and  *)
(* nobody sees it before the commit: the two are one step.  An insertion is *)
(* one statement.  Nothing is ever deleted.                                 *)
(*                                                                         *)
(* Names, prices, capabilities and credentials are left out; the price a    *)
(* model needs before it is activated is checked in the UPDATE's own row.   *)
(***************************************************************************)

CONSTANTS
    Teachers,       \* whoever edits: one transaction at a time each
    Models,
    Providers,
    Bindings,
    ModelOf,        \* model_bindings.model_id
    ProviderOf,     \* model_bindings.provider_id
    Spellings       \* how a provider's new status may be spelled: TRUE is "inactive" or
                    \* "active", FALSE one that resourceStatus reads as the same ("Inactive")

ASSUME RoutesAssumption ==
    /\ ModelOf \in [Bindings -> Models]
    /\ ProviderOf \in [Bindings -> Providers]
    /\ Spellings \subseteq BOOLEAN

VARIABLES
    modelStatus,
    providerStatus,
    bindingStatus,
    tx,             \* the transaction of each teacher
    overlapped      \* has another change been committed since it began?

statusVars == <<modelStatus, providerStatus, bindingStatus>>
vars       == <<statusVars, tx, overlapped>>

ModelStatuses    == {"pending_configuration", "inactive", "active"}
ResourceStatuses == {"inactive", "active"}

\* A transaction: which row it updates to what, the query it runs next ("write": none is
\* left) and the models whose routes it has still to look at.
NoTx == [op |-> "none"]
ModelTx    == [op : {"model"}, row : Models, to : ModelStatuses,
               step : {"check", "write"}, left : SUBSET Models]
BindingTx  == [op : {"binding"}, row : Bindings, to : ResourceStatuses,
               step : {"model", "check", "write"}, left : SUBSET Models]
ProviderTx == [op : {"provider"}, row : Providers, to : ResourceStatuses, exact : BOOLEAN,
               step : {"bindings", "models", "check", "write"}, left : SUBSET Models]

Routes(m) == {b \in Bindings : /\ ModelOf[b] = m
                               /\ bindingStatus[b] = "active"
                               /\ providerStatus[ProviderOf[b]] = "active"}

\* Mutant: the route that is about to be disabled is counted.
KeepsAnyRoute(x, m) == Routes(m) # {}

\* modelHasActiveRouteTx for an activation, modelHasActiveRouteExcluding otherwise.
KeepsRoute(x, m) ==
    \E b \in Routes(m) : /\ x.op = "provider" => ProviderOf[b] # x.row
                         /\ x.op = "binding" => b # x.row

Init ==
    /\ modelStatus = [m \in Models |-> "absent"]
    /\ providerStatus = [p \in Providers |-> "absent"]
    /\ bindingStatus = [b \in Bindings |-> "absent"]
    /\ tx = [t \in Teachers |-> NoTx]
    /\ overlapped = [t \in Teachers |-> FALSE]

-------------------------------------------------------------------------------
(* Insertions: one statement each *)

\* The transactions in progress of everyone but those in done have been overlapped.
Overlap(done) ==
    overlapped' = [t \in Teachers |-> t \notin done /\ (overlapped[t] \/ tx[t] # NoTx)]

\* A teacher's model, or one that a student's application names for the first time.
CreateModel(m, s) ==
    /\ modelStatus[m] = "absent"
    /\ modelStatus' = [modelStatus EXCEPT ![m] = s]
    /\ Overlap({})
    /\ UNCHANGED <<providerStatus, bindingStatus, tx>>

CreateProvider(p, s) ==
    /\ providerStatus[p] = "absent"
    /\ providerStatus' = [providerStatus EXCEPT ![p] = s]
    /\ Overlap({})
    /\ UNCHANGED <<modelStatus, bindingStatus, tx>>

CreateBinding(b, s) ==
    /\ bindingStatus[b] = "absent"
    /\ modelStatus[ModelOf[b]] # "absent"
    /\ providerStatus[ProviderOf[b]] # "absent"
    /\ bindingStatus' = [bindingStatus EXCEPT ![b] = s]
    /\ Overlap({})
    /\ UNCHANGED <<modelStatus, providerStatus, tx>>

-------------------------------------------------------------------------------
(* Updates: the first query reads the row *)

Begin(t, x) ==
    /\ tx[t] = NoTx
    /\ tx' = [tx EXCEPT ![t] = x]
    /\ UNCHANGED <<statusVars, overlapped>>

\* An activation needs a route; every other status is free.
UpdateModel(t, m, s) ==
    /\ modelStatus[m] # "absent"
    /\ Begin(t, [op |-> "model", row |-> m, to |-> s,
                 step |-> IF s = "active" THEN "check" ELSE "write",
                 left |-> IF s = "active" THEN {m} ELSE {}])

\* Only a binding found active is looked at before it is disabled.
UpdateBinding(t, b, s) ==
    /\ bindingStatus[b] # "absent"
    /\ Begin(t, [op |-> "binding", row |-> b, to |-> s,
                 step |-> IF s = "inactive" /\ bindingStatus[b] = "active"
                          THEN "model" ELSE "write",
                 left |-> {}])

\* The check compares the status as it was spelled, the UPDATE writes what it is read as.
UpdateProvider(t, p, s, exact) ==
    /\ providerStatus[p] # "absent"
    /\ Begin(t, [op |-> "provider", row |-> p, to |-> s, exact |-> exact,
                 step |-> IF exact /\ s = "inactive" /\ providerStatus[p] = "active"
                          THEN "bindings" ELSE "write",
                 left |-> {}])

-------------------------------------------------------------------------------
(* The queries of an update *)

\* The transaction goes on to look at the models of S.
LookAt(t, S) ==
    /\ tx' = [tx EXCEPT ![t] = [@ EXCEPT !.step = IF S = {} THEN "write" ELSE "check",
                                         !.left = S]]
    /\ UNCHANGED <<statusVars, overlapped>>

\* ensureBindingCanBeDisabledTx reads the binding's model.
ReadModel(t) ==
    /\ tx[t].op = "binding" /\ tx[t].step = "model"
    /\ LookAt(t, {m \in {ModelOf[tx[t].row]} : modelStatus[m] = "active"})

\* Mutant: the bindings' own ids are collected.
ReadBindingIds(t) ==
    /\ tx[t].op = "provider" /\ tx[t].step = "bindings"
    /\ tx' = [tx EXCEPT ![t] = [@ EXCEPT !.step = "models",
                                         !.left = {b \in Bindings : ProviderOf[b] = tx[t].row}]]
    /\ UNCHANGED <<statusVars, overlapped>>

\* ensureProviderCanBeDisabledTx reads the provider's active bindings ...
ReadBindings(t) ==
    /\ tx[t].op = "provider" /\ tx[t].step = "bindings"
    /\ LET served == {ModelOf[b] : b \in {b \in Bindings : /\ ProviderOf[b] = tx[t].row
                                                           /\ bindingStatus[b] = "active"}}
       IN  tx' = [tx EXCEPT ![t] = [@ EXCEPT !.step = IF served = {} THEN "write" ELSE "models",
                                             !.left = served]]
    /\ UNCHANGED <<statusVars, overlapped>>

\* ... and then which of their models are active.
ReadModels(t) ==
    /\ tx[t].op = "provider" /\ tx[t].step = "models"
    /\ LookAt(t, {m \in tx[t].left : modelStatus[m] = "active"})

CheckModel(t, m) ==
    /\ tx[t] # NoTx /\ tx[t].step = "check"
    /\ m \in tx[t].left
    /\ KeepsRoute(tx[t], m)
    /\ LookAt(t, tx[t].left \ {m})

\* A model without a route refuses the update; an error or a disconnect ends it too.
Rollback(t) ==
    /\ tx[t] # NoTx
    /\ tx' = [tx EXCEPT ![t] = NoTx]
    /\ overlapped' = [overlapped EXCEPT ![t] = FALSE]
    /\ UNCHANGED statusVars

\* The UPDATE and the commit.
Commit(t) ==
    LET Updated(status, op) ==
            IF tx[t].op = op THEN [status EXCEPT ![tx[t].row] = tx[t].to] ELSE status
    IN  /\ tx[t] # NoTx /\ tx[t].step = "write"
        /\ modelStatus' = Updated(modelStatus, "model")
        /\ bindingStatus' = Updated(bindingStatus, "binding")
        /\ providerStatus' = Updated(providerStatus, "provider")
        /\ tx' = [tx EXCEPT ![t] = NoTx]
        /\ Overlap({t})

Next ==
    \/ \E m \in Models, s \in ModelStatuses \ {"active"} : CreateModel(m, s)
    \/ \E p \in Providers, s \in ResourceStatuses : CreateProvider(p, s)
    \/ \E b \in Bindings, s \in ResourceStatuses : CreateBinding(b, s)
    \/ \E t \in Teachers :
        \/ \E m \in Models, s \in ModelStatuses : UpdateModel(t, m, s)
        \/ \E b \in Bindings, s \in ResourceStatuses : UpdateBinding(t, b, s)
        \/ \E p \in Providers, s \in ResourceStatuses, exact \in Spellings :
            UpdateProvider(t, p, s, exact)
        \/ \E m \in Models : CheckModel(t, m)
        \/ ReadModel(t) \/ ReadBindings(t) \/ ReadModels(t) \/ Rollback(t) \/ Commit(t)

Spec == Init /\ [][Next]_vars

-------------------------------------------------------------------------------
TypeOK ==
    /\ modelStatus \in [Models -> ModelStatuses \cup {"absent"}]
    /\ providerStatus \in [Providers -> ResourceStatuses \cup {"absent"}]
    /\ bindingStatus \in [Bindings -> ResourceStatuses \cup {"absent"}]
    /\ tx \in [Teachers -> {NoTx} \cup ModelTx \cup BindingTx \cup ProviderTx]
    /\ overlapped \in [Teachers -> BOOLEAN]

\* Active models no request can be routed for.
Stranded == {m \in Models : modelStatus[m] = "active" /\ Routes(m) = {}}

\* An update of a provider whose new status was not spelled the way its check compares it.
Unchecked(x) == x.op = "provider" /\ ~x.exact

\* With the checks as they are, a model is only stranded by a transaction that another
\* change overlapped, or whose check was skipped: whichever rows it edits, no other update
\* takes an active model's last route or activates a model without one.
StrandedUnchecked ==
    [][Stranded' \subseteq Stranded
         \/ \E t \in Teachers : (overlapped[t] \/ Unchecked(tx[t])) /\ Commit(t)]_vars

===============================================================================
