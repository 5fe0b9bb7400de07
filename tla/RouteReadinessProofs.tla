------------------------- MODULE RouteReadinessProofs -------------------------
(***************************************************************************)
(* An update whose check was not skipped and that no other change overlaps  *)
(* never strands an active model, for any teachers, models, providers and   *)
(* bindings.                                                               *)
(***************************************************************************)
EXTENDS RouteReadiness, TLAPS

\* What a transaction has found out, as long as nothing else is committed.
ModelKnows(x) ==
    x.to = "active" => /\ x.step = "check" => x.left = {x.row}
                       /\ x.step = "write" => Routes(x.row) # {}

BindingKnows(x) ==
    (x.to = "inactive" /\ bindingStatus[x.row] = "active" /\ x.step # "model") =>
        ((modelStatus[ModelOf[x.row]] = "active" /\ ModelOf[x.row] \notin x.left)
            => KeepsRoute(x, ModelOf[x.row]))

ProviderKnows(x) ==
    (x.exact /\ x.to = "inactive" /\ providerStatus[x.row] = "active") =>
        \A b \in Bindings : (ProviderOf[b] = x.row /\ bindingStatus[b] = "active") =>
            /\ x.step = "models" => ModelOf[b] \in x.left
            /\ (/\ x.step \in {"check", "write"}
                /\ modelStatus[ModelOf[b]] = "active"
                /\ ModelOf[b] \notin x.left) => KeepsRoute(x, ModelOf[b])

Knows(x) ==
    /\ x.step = "write" => x.left = {}
    /\ x.op = "model" => ModelKnows(x)
    /\ x.op = "binding" => BindingKnows(x)
    /\ x.op = "provider" => ProviderKnows(x)

AloneKnows == \A t \in Teachers : (tx[t] # NoTx /\ ~overlapped[t]) => Knows(tx[t])

RoutesInv == TypeOK /\ AloneKnows

-------------------------------------------------------------------------------
\* What one of the transactions is.
LEMMA TxShape ==
    ASSUME TypeOK, NEW t \in Teachers, tx[t] # NoTx
    PROVE  /\ tx[t] \in ModelTx \cup BindingTx \cup ProviderTx
           /\ tx[t].op = "model" => tx[t] \in ModelTx
           /\ tx[t].op = "binding" => tx[t] \in BindingTx
           /\ tx[t].op = "provider" => tx[t] \in ProviderTx
           /\ tx[t].op \in {"model", "binding", "provider"}
<1>1. tx[t] \in ModelTx \cup BindingTx \cup ProviderTx
  BY DEF TypeOK
<1> QED
  BY <1>1 DEF ModelTx, BindingTx, ProviderTx

\* A step that only moves the transaction of one teacher needs a look at that one.
LEMMA OwnStep ==
    ASSUME RoutesInv, NEW t \in Teachers,
           NEW x \in {NoTx} \cup ModelTx \cup BindingTx \cup ProviderTx,
           tx' = [tx EXCEPT ![t] = x],
           overlapped' = overlapped \/ overlapped' = [overlapped EXCEPT ![t] = FALSE],
           UNCHANGED statusVars,
           (x # NoTx /\ ~overlapped[t]) => Knows(x),
           overlapped' # overlapped => x = NoTx
    PROVE  RoutesInv'
<1>1. TypeOK /\ AloneKnows
  BY DEF RoutesInv
<1>2. TypeOK'
  BY <1>1 DEF TypeOK, statusVars
<1>3. ASSUME NEW u \in Teachers, tx'[u] # NoTx, ~overlapped'[u]
      PROVE  Knows(tx[u])'
  <2>1. CASE u = t
    <3>1. tx'[u] = x /\ x # NoTx /\ overlapped' = overlapped
      BY <1>1, <1>3, <2>1 DEF TypeOK
    <3>2. Knows(x)
      BY <1>3, <2>1, <3>1
    <3> QED
      BY <3>1, <3>2 DEF Knows, ModelKnows, BindingKnows, ProviderKnows, KeepsRoute, Routes,
                        statusVars
  <2>2. CASE u # t
    <3>1. tx'[u] = tx[u] /\ ~overlapped[u]
      BY <1>1, <1>3, <2>2 DEF TypeOK
    <3>2. Knows(tx[u])
      BY <1>1, <1>3, <3>1 DEF AloneKnows
    <3> QED
      BY <3>1, <3>2 DEF Knows, ModelKnows, BindingKnows, ProviderKnows, KeepsRoute, Routes,
                        statusVars
  <2> QED
    BY <2>1, <2>2
<1> QED
  BY <1>2, <1>3 DEF RoutesInv, AloneKnows

\* What is committed under the others overlaps them all.
LEMMA OverlapsOthers ==
    ASSUME RoutesInv, TypeOK', NEW done \in SUBSET Teachers, Overlap(done),
           \A t \in Teachers : tx'[t] = IF t \in done THEN NoTx ELSE tx[t]
    PROVE  RoutesInv'
<1>1. ASSUME NEW t \in Teachers, tx'[t] # NoTx PROVE overlapped'[t]
  BY <1>1 DEF Overlap
<1> QED
  BY <1>1 DEF RoutesInv, AloneKnows

-------------------------------------------------------------------------------
\* A new row takes no route away, and no model is created active.
LEMMA InsertionsKeep ==
    ASSUME RoutesInv,
           \/ \E m \in Models, s \in ModelStatuses \ {"active"} : CreateModel(m, s)
           \/ \E p \in Providers, s \in ResourceStatuses : CreateProvider(p, s)
           \/ \E b \in Bindings, s \in ResourceStatuses : CreateBinding(b, s)
    PROVE  RoutesInv' /\ Stranded' \subseteq Stranded
<1>1. TypeOK
  BY DEF RoutesInv
<1>2. Overlap({}) /\ tx' = tx
  BY DEF CreateModel, CreateProvider, CreateBinding
<1>3. overlapped' \in [Teachers -> BOOLEAN]
  BY <1>2 DEF Overlap
<1>4. TypeOK'
  BY <1>1, <1>2, <1>3 DEF TypeOK, CreateModel, CreateProvider, CreateBinding
<1>5. RoutesInv'
  BY <1>2, <1>4, OverlapsOthers
<1>6. /\ \A b \in Bindings : bindingStatus[b] = "active" => bindingStatus'[b] = "active"
      /\ \A p \in Providers : providerStatus[p] = "active" => providerStatus'[p] = "active"
      /\ \A m \in Models : modelStatus'[m] = "active" => modelStatus[m] = "active"
  BY <1>1 DEF TypeOK, CreateModel, CreateProvider, CreateBinding
<1>7. \A m \in Models : Routes(m) \subseteq Routes(m)'
  BY <1>6, RoutesAssumption DEF Routes
<1>8. Stranded' \subseteq Stranded
  BY <1>6, <1>7 DEF Stranded
<1> QED
  BY <1>5, <1>8

\* A transaction that has only read its row knows nothing yet, or need not know anything.
LEMMA BeginKeeps ==
    ASSUME RoutesInv, NEW t \in Teachers,
           \/ \E m \in Models, s \in ModelStatuses : UpdateModel(t, m, s)
           \/ \E b \in Bindings, s \in ResourceStatuses : UpdateBinding(t, b, s)
           \/ \E p \in Providers, s \in ResourceStatuses, e \in Spellings : UpdateProvider(t, p, s, e)
    PROVE  RoutesInv' /\ Stranded' \subseteq Stranded
<1>1. ASSUME NEW x \in ModelTx \cup BindingTx \cup ProviderTx, Begin(t, x), Knows(x)
      PROVE  RoutesInv' /\ Stranded' \subseteq Stranded
  <2>1. RoutesInv'
    BY <1>1, OwnStep DEF Begin
  <2>2. Stranded' = Stranded
    BY <1>1 DEF Begin, Stranded, Routes, statusVars
  <2> QED
    BY <2>1, <2>2
<1>2. ASSUME NEW m \in Models, NEW s \in ModelStatuses, UpdateModel(t, m, s)
      PROVE  RoutesInv' /\ Stranded' \subseteq Stranded
  <2> DEFINE x == [op |-> "model", row |-> m, to |-> s,
                   step |-> IF s = "active" THEN "check" ELSE "write",
                   left |-> IF s = "active" THEN {m} ELSE {}]
  <2>1. x \in ModelTx
    BY <1>2 DEF ModelTx
  <2>2. Knows(x)
    BY DEF Knows, ModelKnows
  <2> QED
    BY <1>1, <1>2, <2>1, <2>2 DEF UpdateModel
<1>3. ASSUME NEW b \in Bindings, NEW s \in ResourceStatuses, UpdateBinding(t, b, s)
      PROVE  RoutesInv' /\ Stranded' \subseteq Stranded
  <2> DEFINE x == [op |-> "binding", row |-> b, to |-> s,
                   step |-> IF s = "inactive" /\ bindingStatus[b] = "active"
                            THEN "model" ELSE "write",
                   left |-> {}]
  <2>1. x \in BindingTx
    BY <1>3 DEF BindingTx
  <2>2. Knows(x)
    BY DEF Knows, BindingKnows
  <2> QED
    BY <1>1, <1>3, <2>1, <2>2 DEF UpdateBinding
<1>4. ASSUME NEW p \in Providers, NEW s \in ResourceStatuses, NEW e \in Spellings,
             UpdateProvider(t, p, s, e)
      PROVE  RoutesInv' /\ Stranded' \subseteq Stranded
  <2> DEFINE x == [op |-> "provider", row |-> p, to |-> s, exact |-> e,
                   step |-> IF e /\ s = "inactive" /\ providerStatus[p] = "active"
                            THEN "bindings" ELSE "write",
                   left |-> {}]
  <2>1. x \in ProviderTx
    BY <1>4, RoutesAssumption DEF ProviderTx
  <2>2. Knows(x)
    BY DEF Knows, ProviderKnows
  <2> QED
    BY <1>1, <1>4, <2>1, <2>2 DEF UpdateProvider
<1> QED
  BY <1>2, <1>3, <1>4

\* A transaction that ends without a commit changes nothing.
LEMMA RollbackKeeps ==
    ASSUME RoutesInv, NEW t \in Teachers, Rollback(t)
    PROVE  RoutesInv' /\ Stranded' \subseteq Stranded
<1>1. RoutesInv'
  BY OwnStep DEF Rollback
<1>2. Stranded' = Stranded
  BY DEF Rollback, Stranded, Routes, statusVars
<1> QED
  BY <1>1, <1>2

\* A query changes no row: it is enough that the transaction knows what it read.
LEMMA QueryKeeps ==
    ASSUME RoutesInv, NEW t \in Teachers, tx[t] # NoTx,
           NEW x \in ModelTx \cup BindingTx \cup ProviderTx,
           tx' = [tx EXCEPT ![t] = x], UNCHANGED <<statusVars, overlapped>>,
           Knows(tx[t]) => Knows(x)
    PROVE  RoutesInv' /\ Stranded' \subseteq Stranded
<1>1. (x # NoTx /\ ~overlapped[t]) => Knows(x)
  BY DEF RoutesInv, AloneKnows
<1>2. RoutesInv'
  BY <1>1, OwnStep
<1>3. Stranded' = Stranded
  BY DEF Stranded, Routes, statusVars
<1> QED
  BY <1>2, <1>3

\* What each query adds to what its transaction knows.
LEMMA QueriesKeep ==
    ASSUME RoutesInv, NEW t \in Teachers,
           \/ \E m \in Models : CheckModel(t, m)
           \/ ReadModel(t) \/ ReadBindings(t) \/ ReadModels(t)
    PROVE  RoutesInv' /\ Stranded' \subseteq Stranded
<1>1. TypeOK
  BY DEF RoutesInv
<1>2. tx[t] # NoTx
  <2>1. NoTx.op = "none"
    BY DEF NoTx
  <2>2. CASE \E m \in Models : CheckModel(t, m)
    BY <2>2 DEF CheckModel
  <2>3. CASE ReadModel(t)
    BY <2>1, <2>3 DEF ReadModel
  <2>4. CASE ReadBindings(t)
    BY <2>1, <2>4 DEF ReadBindings
  <2>5. CASE ReadModels(t)
    BY <2>1, <2>5 DEF ReadModels
  <2> QED
    BY <2>2, <2>3, <2>4, <2>5
<1> DEFINE y       == tx[t]
           After(S) == [y EXCEPT !.step = IF S = {} THEN "write" ELSE "check", !.left = S]
<1>3. ASSUME NEW m \in Models, CheckModel(t, m)
      PROVE  RoutesInv' /\ Stranded' \subseteq Stranded
  <2> DEFINE x == After(y.left \ {m})
  <2>1. tx' = [tx EXCEPT ![t] = x] /\ UNCHANGED <<statusVars, overlapped>>
    BY <1>3 DEF CheckModel, LookAt
  <2>2. /\ x \in ModelTx \cup BindingTx \cup ProviderTx
        /\ x.op = y.op /\ x.row = y.row /\ x.to = y.to /\ x.left = y.left \ {m}
        /\ x.step = IF y.left \ {m} = {} THEN "write" ELSE "check"
        /\ y.op = "provider" => x.exact = y.exact
    <3>1. CASE y \in ModelTx
      BY <3>1, <1>3 DEF CheckModel, ModelTx
    <3>2. CASE y \in BindingTx
      BY <3>2, <1>3 DEF CheckModel, BindingTx
    <3>3. CASE y \in ProviderTx
      BY <3>3, <1>3 DEF CheckModel, ProviderTx
    <3> QED
      BY <1>1, <1>2, <3>1, <3>2, <3>3, TxShape
  <2>3. y.step = "check" /\ m \in y.left /\ KeepsRoute(y, m)
    BY <1>3 DEF CheckModel
  <2>4. \A n : KeepsRoute(x, n) <=> KeepsRoute(y, n)
    BY <2>2, <2>3 DEF KeepsRoute
  <2> HIDE DEF x, y
  <2>5. ASSUME Knows(y) PROVE Knows(x)
    <3>1. x.op = "model" => ModelKnows(x)
      <4>1. CASE x.op = "model" /\ x.to = "active"
        <5>1. y.left = {y.row}
          BY <2>2, <2>3, <2>5, <4>1 DEF Knows, ModelKnows
        <5>2. m = x.row /\ x.step = "write" /\ Routes(m) # {}
          BY <2>2, <2>3, <5>1 DEF KeepsRoute
        <5> QED
          BY <5>2 DEF ModelKnows
      <4> QED
        BY <4>1 DEF ModelKnows
    <3>2. x.op = "binding" => BindingKnows(x)
      BY <2>2, <2>3, <2>4, <2>5 DEF Knows, BindingKnows
    <3>3. x.op = "provider" => ProviderKnows(x)
      BY <2>2, <2>3, <2>4, <2>5 DEF Knows, ProviderKnows
    <3> QED
      BY <2>2, <2>3, <3>1, <3>2, <3>3 DEF Knows
  <2> QED
    BY <1>2, <2>1, <2>2, <2>5, QueryKeeps DEF y
<1>4. ASSUME ReadModel(t)
      PROVE  RoutesInv' /\ Stranded' \subseteq Stranded
  <2> DEFINE S == {m \in {ModelOf[y.row]} : modelStatus[m] = "active"}
             x == After(S)
  <2>1. tx' = [tx EXCEPT ![t] = x] /\ UNCHANGED <<statusVars, overlapped>>
    BY <1>4 DEF ReadModel, LookAt
  <2>2. y \in BindingTx
    BY <1>1, <1>2, <1>4, TxShape DEF ReadModel
  <2>3. S \subseteq Models
    BY <2>2, RoutesAssumption DEF BindingTx
  <2>4. x \in BindingTx
    BY <2>2, <2>3 DEF BindingTx
  <2>5. /\ x.op = "binding" /\ x.row = y.row /\ x.left = S
        /\ x.step = IF S = {} THEN "write" ELSE "check"
    BY <2>2 DEF BindingTx
  <2>6. modelStatus[ModelOf[x.row]] = "active" => ModelOf[x.row] \in x.left
    BY <2>5
  <2> HIDE DEF S, x, y
  <2>7. Knows(x)
    BY <2>5, <2>6 DEF Knows, BindingKnows
  <2> QED
    BY <1>2, <2>1, <2>4, <2>7, QueryKeeps DEF y
<1>5. ASSUME ReadBindings(t)
      PROVE  RoutesInv' /\ Stranded' \subseteq Stranded
  <2> DEFINE served == {ModelOf[b] : b \in {b \in Bindings : /\ ProviderOf[b] = y.row
                                                             /\ bindingStatus[b] = "active"}}
             x == [y EXCEPT !.step = IF served = {} THEN "write" ELSE "models",
                            !.left = served]
  <2>1. tx' = [tx EXCEPT ![t] = x] /\ UNCHANGED <<statusVars, overlapped>>
    BY <1>5 DEF ReadBindings
  <2>2. y \in ProviderTx
    BY <1>1, <1>2, <1>5, TxShape DEF ReadBindings
  <2>3. served \subseteq Models
    BY RoutesAssumption
  <2>4. x \in ProviderTx
    BY <2>2, <2>3 DEF ProviderTx
  <2>5. /\ x.op = "provider" /\ x.row = y.row /\ x.left = served
        /\ x.step = IF served = {} THEN "write" ELSE "models"
    BY <2>2 DEF ProviderTx
  <2>6. \A b \in Bindings : (ProviderOf[b] = x.row /\ bindingStatus[b] = "active")
                                => ModelOf[b] \in x.left
    BY <2>5
  <2>7. x.step = "write" => x.left = {}
    BY <2>5
  <2> HIDE DEF served, x, y
  <2>8. Knows(x)
    BY <2>5, <2>6, <2>7 DEF Knows, ProviderKnows
  <2> QED
    BY <1>2, <2>1, <2>4, <2>8, QueryKeeps DEF y
<1>6. ASSUME ReadModels(t)
      PROVE  RoutesInv' /\ Stranded' \subseteq Stranded
  <2> DEFINE S == {m \in y.left : modelStatus[m] = "active"}
             x == After(S)
  <2>1. tx' = [tx EXCEPT ![t] = x] /\ UNCHANGED <<statusVars, overlapped>>
    BY <1>6 DEF ReadModels, LookAt
  <2>2. y \in ProviderTx /\ y.step = "models"
    BY <1>1, <1>2, <1>6, TxShape DEF ReadModels
  <2>3. x \in ProviderTx
    BY <2>2 DEF ProviderTx
  <2>4. /\ x.op = "provider" /\ x.row = y.row /\ x.to = y.to /\ x.left = S /\ y.op = "provider"
        /\ x.step = IF S = {} THEN "write" ELSE "check"
        /\ x.exact = y.exact
    BY <2>2 DEF ProviderTx
  <2>5. \A m : (m \in y.left /\ modelStatus[m] = "active") => m \in x.left
    BY <2>4
  <2>6. x.step = "write" => x.left = {}
    BY <2>4
  <2> HIDE DEF S, x, y
  <2>7. ASSUME Knows(y) PROVE Knows(x)
    BY <2>2, <2>4, <2>5, <2>6, <2>7 DEF Knows, ProviderKnows
  <2> QED
    BY <1>2, <2>1, <2>3, <2>7, QueryKeeps DEF y
<1> QED
  BY <1>3, <1>4, <1>5, <1>6

\* The one step that can strand a model.
LEMMA CommitKeeps ==
    ASSUME RoutesInv, NEW t \in Teachers, Commit(t)
    PROVE  RoutesInv' /\ (~overlapped[t] /\ ~Unchecked(tx[t]) => Stranded' \subseteq Stranded)
<1> DEFINE x == tx[t]
<1>1. TypeOK /\ tx[t] # NoTx /\ x.step = "write"
  BY DEF RoutesInv, Commit
<1>2. /\ x \in ModelTx \cup BindingTx \cup ProviderTx
      /\ x.op = "model" => x \in ModelTx
      /\ x.op = "binding" => x \in BindingTx
      /\ x.op = "provider" => x \in ProviderTx
      /\ x.op \in {"model", "binding", "provider"}
  BY <1>1, TxShape
<1>3. /\ modelStatus' = IF x.op = "model" THEN [modelStatus EXCEPT ![x.row] = x.to]
                        ELSE modelStatus
      /\ bindingStatus' = IF x.op = "binding" THEN [bindingStatus EXCEPT ![x.row] = x.to]
                          ELSE bindingStatus
      /\ providerStatus' = IF x.op = "provider" THEN [providerStatus EXCEPT ![x.row] = x.to]
                           ELSE providerStatus
      /\ tx' = [tx EXCEPT ![t] = NoTx]
      /\ Overlap({t})
  BY DEF Commit
<1>4. RoutesInv'
  <2>1. overlapped' \in [Teachers -> BOOLEAN]
    BY <1>3 DEF Overlap
  <2>2. tx' \in [Teachers -> {NoTx} \cup ModelTx \cup BindingTx \cup ProviderTx]
    BY <1>1, <1>3 DEF TypeOK
  <2> HIDE DEF x
  <2>3. modelStatus' \in [Models -> ModelStatuses \cup {"absent"}]
    BY <1>1, <1>2, <1>3 DEF TypeOK, ModelTx
  <2>4. bindingStatus' \in [Bindings -> ResourceStatuses \cup {"absent"}]
    BY <1>1, <1>2, <1>3 DEF TypeOK, BindingTx
  <2>5. providerStatus' \in [Providers -> ResourceStatuses \cup {"absent"}]
    BY <1>1, <1>2, <1>3 DEF TypeOK, ProviderTx
  <2>6. TypeOK'
    BY <2>1, <2>2, <2>3, <2>4, <2>5 DEF TypeOK
  <2>7. \A u \in Teachers : tx'[u] = IF u \in {t} THEN NoTx ELSE tx[u]
    BY <1>1, <1>3 DEF TypeOK
  <2> QED
    BY <1>3, <2>6, <2>7, OverlapsOthers
<1>5. ASSUME ~overlapped[t], ~Unchecked(x) PROVE Stranded' \subseteq Stranded
  <2>1. Knows(x) /\ x.left = {} /\ (x.op = "provider" => x.exact)
    BY <1>1, <1>5 DEF RoutesInv, AloneKnows, Knows, Unchecked
  <2> HIDE DEF x
  <2> SUFFICES ASSUME NEW m \in Models, modelStatus'[m] = "active", m \notin Stranded
               PROVE  Routes(m)' # {}
    BY DEF Stranded
  <2>2. CASE x.op = "model"
    <3>1. Routes(m)' = Routes(m)
      BY <1>3, <2>2 DEF Routes
    <3>2. CASE m = x.row
      BY <1>1, <1>2, <1>3, <2>1, <2>2, <3>1, <3>2 DEF Knows, ModelKnows, TypeOK
    <3>3. CASE m # x.row
      BY <1>1, <1>2, <1>3, <2>2, <3>1, <3>3 DEF Stranded, TypeOK, ModelTx
    <3> QED
      BY <3>2, <3>3
  <2>3. CASE x.op = "binding"
    <3>1. modelStatus[m] = "active" /\ Routes(m) # {}
      BY <1>3, <2>3 DEF Stranded
    <3>2. x.row \in Bindings /\ x.to \in ResourceStatuses
      BY <1>2, <2>3 DEF BindingTx
    <3>3. \A b \in Routes(m) : b # x.row \/ x.to = "active" => b \in Routes(m)'
      BY <1>1, <1>3, <2>3, <3>2 DEF Routes, TypeOK
    <3>4. \E b \in Routes(m) : b # x.row \/ x.to = "active"
      <4>1. CASE x.to = "active" \/ x.row \notin Routes(m)
        BY <3>1, <4>1
      <4>2. CASE x.to = "inactive" /\ x.row \in Routes(m)
        <5>1. KeepsRoute(x, m)
          BY <1>1, <2>1, <2>3, <3>1, <4>2 DEF Knows, BindingKnows, Routes
        <5> QED
          BY <2>3, <5>1 DEF KeepsRoute
      <4> QED
        BY <3>2, <4>1, <4>2 DEF ResourceStatuses
    <3> QED
      BY <3>3, <3>4
  <2>4. CASE x.op = "provider"
    <3>1. modelStatus[m] = "active" /\ Routes(m) # {}
      BY <1>3, <2>4 DEF Stranded
    <3>2. x.row \in Providers /\ x.to \in ResourceStatuses
      BY <1>2, <2>4 DEF ProviderTx
    <3>3. \A b \in Routes(m) : ProviderOf[b] # x.row \/ x.to = "active" => b \in Routes(m)'
      BY <1>1, <1>3, <2>4, <3>2, RoutesAssumption DEF Routes, TypeOK
    <3>4. \E b \in Routes(m) : ProviderOf[b] # x.row \/ x.to = "active"
      <4>1. CASE x.to = "active" \/ \E b \in Routes(m) : ProviderOf[b] # x.row
        BY <3>1, <4>1
      <4>2. ASSUME x.to = "inactive", NEW b \in Routes(m), ProviderOf[b] = x.row
            PROVE  \E c \in Routes(m) : ProviderOf[c] # x.row
        <5>1. KeepsRoute(x, m)
          BY <1>1, <2>1, <2>4, <3>1, <4>2 DEF Knows, ProviderKnows, Routes
        <5> QED
          BY <2>4, <5>1 DEF KeepsRoute
      <4> QED
        BY <3>1, <3>2, <4>1, <4>2 DEF ResourceStatuses
    <3> QED
      BY <3>3, <3>4
  <2> QED
    BY <1>2, <2>2, <2>3, <2>4
<1> QED
  BY <1>4, <1>5

-------------------------------------------------------------------------------
\* With no rows and no transactions there is nothing to know.
LEMMA RoutesInit == Init => RoutesInv
<1> SUFFICES ASSUME Init PROVE RoutesInv
  OBVIOUS
<1>1. TypeOK
  BY DEF Init, TypeOK
<1>2. AloneKnows
  BY DEF Init, AloneKnows
<1> QED
  BY <1>1, <1>2 DEF RoutesInv

\* The invariant is inductive, and only a commit that was not checked strands a model.
LEMMA RoutesStep ==
    ASSUME RoutesInv, [Next]_vars
    PROVE  /\ RoutesInv'
           /\ Stranded' \subseteq Stranded
                \/ (\E t \in Teachers : (overlapped[t] \/ Unchecked(tx[t])) /\ Commit(t))
                \/ UNCHANGED vars
<1>1. CASE \/ \E m \in Models, s \in ModelStatuses \ {"active"} : CreateModel(m, s)
           \/ \E p \in Providers, s \in ResourceStatuses : CreateProvider(p, s)
           \/ \E b \in Bindings, s \in ResourceStatuses : CreateBinding(b, s)
  BY <1>1, InsertionsKeep
<1>2. ASSUME NEW t \in Teachers,
             \/ \E m \in Models, s \in ModelStatuses : UpdateModel(t, m, s)
             \/ \E b \in Bindings, s \in ResourceStatuses : UpdateBinding(t, b, s)
             \/ \E p \in Providers, s \in ResourceStatuses, e \in Spellings : UpdateProvider(t, p, s, e)
      PROVE  RoutesInv' /\ Stranded' \subseteq Stranded
  BY <1>2, BeginKeeps
<1>3. ASSUME NEW t \in Teachers,
             \/ \E m \in Models : CheckModel(t, m)
             \/ ReadModel(t) \/ ReadBindings(t) \/ ReadModels(t)
      PROVE  RoutesInv' /\ Stranded' \subseteq Stranded
  BY <1>3, QueriesKeep
<1>4. ASSUME NEW t \in Teachers, Rollback(t)
      PROVE  RoutesInv' /\ Stranded' \subseteq Stranded
  BY <1>4, RollbackKeeps
<1>5. ASSUME NEW t \in Teachers, Commit(t)
      PROVE  RoutesInv' /\ (~overlapped[t] /\ ~Unchecked(tx[t]) => Stranded' \subseteq Stranded)
  BY <1>5, CommitKeeps
<1>6. CASE UNCHANGED vars
  BY <1>6 DEF vars, statusVars, RoutesInv, TypeOK, AloneKnows, Knows, ModelKnows, BindingKnows,
              ProviderKnows, KeepsRoute, Routes
<1> QED
  BY <1>1, <1>2, <1>3, <1>4, <1>5, <1>6 DEF Next

\* Every column keeps to its domain and every transaction to the queries of its operation.
THEOREM RouteTypesHold == Spec => []TypeOK
<1>1. Init => RoutesInv
  BY RoutesInit
<1>2. RoutesInv /\ [Next]_vars => RoutesInv'
  BY RoutesStep
<1>3. RoutesInv => TypeOK
  BY DEF RoutesInv
<1> QED
  BY <1>1, <1>2, <1>3, PTL DEF Spec

\* UpdateModel, UpdateBinding and UpdateProvider strand an active model only when another
\* change is committed between their first query and their commit, or when the check of
\* UpdateProvider was skipped.
THEOREM ChecksSuffice == Spec => StrandedUnchecked
<1>1. Init => RoutesInv
  BY RoutesInit
<1>2. RoutesInv /\ [Next]_vars => RoutesInv'
  BY RoutesStep
<1>3. RoutesInv /\ [Next]_vars =>
        [Stranded' \subseteq Stranded
            \/ \E t \in Teachers : (overlapped[t] \/ Unchecked(tx[t])) /\ Commit(t)]_vars
  BY RoutesStep
<1> QED
  BY <1>1, <1>2, <1>3, PTL DEF Spec, StrandedUnchecked
===============================================================================
