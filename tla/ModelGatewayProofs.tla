--------------------------- MODULE ModelGatewayProofs ---------------------------
(***************************************************************************)
(* What a scope may be overspent by, and what a cancelled call still does, *)
(* for any calls, budgets, nesting of scopes, attempts and secondaries.    *)
(***************************************************************************)
EXTENDS ModelGateway, FiniteSetTheorems, TLAPS

-----------------------------------------------------------------------------
(* The inductive invariant *)

\* A call belongs to the scope it was admitted in, has an attempt left while it may
\* start one, and has reported nothing until it is answered.
StageInv ==
  \A c \in Calls :
    /\ stage[c] = "idle" => scope[c] = NoScope
    /\ stage[c] \notin {"idle", "done"} => scope[c] \in Scopes
    /\ stage[c] \notin {"streaming", "done"} => usage[c] = 0
    /\ scope[c] = NoScope => usage[c] = 0
    /\ stage[c] \in {"idle", "trying", "backoff"} => attempt[c] < Attempts

\* A scope has been billed what its calls have reported.
BillInv == \A s \in Scopes : spent[s] = Reported(s)

\* The calls of a scope that may still report.
Under(s) == Within(s) \ Settled

\* When its latest call was admitted a scope had some of its budget left; each call
\* then under way has been billed at most MaxTokens since, or may still be.
BudgetInv ==
  \A s \in Scopes :
    \/ spent[s] = 0 /\ Under(s) = {}
    \/ spent[s] + MaxTokens * Cardinality(Under(s)) < Budget[s] + MaxTokens * beside[s]

IInv == TypeOK /\ StageInv /\ BillInv /\ BudgetInv

-----------------------------------------------------------------------------
(* Scopes, the tokens reported in them and the calls under way in them *)

LEMMA Scaled ==
  \A m, k \in Nat : m * k \in Nat /\ m * (k + 1) = m * k + m
  OBVIOUS

\* A chain holds its scope and whatever scope is around one it holds.
LEMMA ChainIsOfScopes ==
  ASSUME NEW s \in Scopes
  PROVE  /\ Chain(s) \subseteq Scopes /\ s \in Chain(s)
         /\ \A r \in Chain(s) : Parent[r] \in Chain(s)
  BY ScopesAssumption DEF Chain, Chains

\* A call has settled in the scopes of its chain.
LEMMA SettledInChain ==
  ASSUME TypeOK, NEW s \in Scopes, NEW c \in Calls
  PROVE  /\ c \in SettledIn(s) <=> stage[c] = "done" /\ scope[c] \in Scopes /\ s \in Chain(scope[c])
         /\ c \in Under(s) <=> stage[c] # "done" /\ scope[c] \in Scopes /\ s \in Chain(scope[c])
<1>1. scope[c] \in Scopes \cup {NoScope}
  BY DEF TypeOK
<1> QED
  BY <1>1, NoScopeAssumption DEF SettledIn, Under, Within, Settled

LEMMA SettledInChainThen ==
  ASSUME TypeOK', NEW s \in Scopes, NEW c \in Calls
  PROVE  /\ c \in SettledIn(s)' <=>
              stage'[c] = "done" /\ scope'[c] \in Scopes /\ s \in Chain(scope'[c])
         /\ c \in Under(s)' <=>
              stage'[c] # "done" /\ scope'[c] \in Scopes /\ s \in Chain(scope'[c])
<1>1. scope'[c] \in Scopes \cup {NoScope}
  BY DEF TypeOK
<1> QED
  BY <1>1, NoScopeAssumption DEF SettledIn, Under, Within, Settled

\* The tokens themselves: Reported counts them.
Told(s) == {t \in SettledIn(s) \X (1 .. MaxTokens) : t[2] <= usage[t[1]]}

LEMMA ToldAreFinite ==
  ASSUME NEW s \in Scopes
  PROVE  IsFiniteSet(Told(s)) /\ Reported(s) = Cardinality(Told(s))
<1>1. IsFiniteSet(SettledIn(s))
  BY CallsAssumption, FS_Subset DEF SettledIn, Settled
<1>2. IsFiniteSet(1 .. MaxTokens)
  BY MaxTokensAssumption, FS_Interval
<1>3. IsFiniteSet(SettledIn(s) \X (1 .. MaxTokens))
  BY <1>1, <1>2, FS_Product
<1>4. IsFiniteSet(Told(s))
  BY <1>3, FS_Subset DEF Told
<1> QED
  BY <1>4 DEF Reported, Told

LEMMA UnderIsFinite ==
  \A s \in Scopes : IsFiniteSet(Under(s)) /\ Cardinality(Under(s)) \in Nat
<1> SUFFICES ASSUME NEW s \in Scopes
             PROVE  IsFiniteSet(Under(s)) /\ Cardinality(Under(s)) \in Nat
  OBVIOUS
<1>1. Under(s) \subseteq Calls
  BY DEF Under, Within
<1> QED
  BY <1>1, CallsAssumption, FS_Subset, FS_CardinalityType

LEMMA TokensOfOne ==
  ASSUME NEW c, NEW n \in Nat
  PROVE  IsFiniteSet({c} \X (1 .. n)) /\ Cardinality({c} \X (1 .. n)) = n
<1>1. IsFiniteSet({c}) /\ Cardinality({c}) = 1
  BY FS_Singleton
<1>2. IsFiniteSet(1 .. n) /\ Cardinality(1 .. n) = n
  BY FS_Interval
<1>3. /\ IsFiniteSet({c} \X (1 .. n))
      /\ Cardinality({c} \X (1 .. n)) = Cardinality({c}) * Cardinality(1 .. n)
  BY <1>1, <1>2, FS_Product
<1> QED
  BY <1>1, <1>2, <1>3

\* A step after which the same calls have settled, with the same usage, and the same
\* are under way.
LEMMA MoneyKept ==
  ASSUME TypeOK, BillInv, BudgetInv, UNCHANGED <<spent, beside>>,
         \A s \in Scopes : SettledIn(s)' = SettledIn(s) /\ Under(s)' = Under(s),
         \A c \in Calls : stage[c] = "done" => usage'[c] = usage[c]
  PROVE  BillInv' /\ BudgetInv'
<1>1. ASSUME NEW s \in Scopes
      PROVE  Reported(s)' = Reported(s)
  <2>1. \A t \in SettledIn(s) \X (1 .. MaxTokens) : usage'[t[1]] = usage[t[1]]
    BY DEF SettledIn, Settled
  <2>2. {t \in SettledIn(s)' \X (1 .. MaxTokens) : t[2] <= usage'[t[1]]}
          = {t \in SettledIn(s) \X (1 .. MaxTokens) : t[2] <= usage[t[1]]}
    BY <2>1
  <2> QED
    BY <2>2 DEF Reported
<1>2. BillInv'
  BY <1>1 DEF BillInv
<1>3. BudgetInv'
  BY DEF BudgetInv
<1> QED
  BY <1>2, <1>3

\* A call settles: what it reports is billed to each scope of its chain.
LEMMA MoneySettles ==
  ASSUME TypeOK, TypeOK', BillInv, BudgetInv,
         NEW c \in Calls, stage[c] # "done", scope[c] \in Scopes,
         stage' = [stage EXCEPT ![c] = "done"], UNCHANGED <<scope, beside>>,
         \A d \in Calls : d # c => usage'[d] = usage[d],
         spent' = [s \in Scopes |->
                     IF s \in Chain(scope[c]) THEN spent[s] + usage'[c] ELSE spent[s]]
  PROVE  BillInv' /\ BudgetInv'
<1>1. stage'[c] = "done" /\ \A d \in Calls : d # c => stage'[d] = stage[d]
  BY DEF TypeOK
<1>2. usage'[c] \in Nat /\ usage'[c] <= MaxTokens /\ MaxTokens \in Nat
  BY MaxTokensAssumption DEF TypeOK, Tokens
<1>3. ASSUME NEW s \in Scopes, s \in Chain(scope[c])
      PROVE  /\ Reported(s)' = Reported(s) + usage'[c]
             /\ Under(s)' = Under(s) \ {c} /\ c \in Under(s)
  <2>1. \A d \in Calls : d \in SettledIn(s)' <=> d \in SettledIn(s) \/ d = c
    BY <1>1, <1>3, SettledInChain, SettledInChainThen
  <2>2. \A d \in Calls : d \in Under(s)' <=> d \in Under(s) /\ d # c
    BY <1>1, <1>3, SettledInChain, SettledInChainThen
  <2>3. c \in Under(s) /\ c \notin SettledIn(s)
    BY <1>3, SettledInChain
  <2>4. SettledIn(s)' = SettledIn(s) \cup {c}
    BY <2>1 DEF SettledIn, Settled
  <2>5. Under(s)' = Under(s) \ {c}
    BY <2>2 DEF Under, Within
  <2>6. Told(s)' = Told(s) \cup ({c} \X (1 .. usage'[c]))
    <3>1. \A t \in SettledIn(s) \X (1 .. MaxTokens) : usage'[t[1]] = usage[t[1]]
      BY <2>3 DEF SettledIn, Settled
    <3>2. {t \in {c} \X (1 .. MaxTokens) : t[2] <= usage'[t[1]]} = {c} \X (1 .. usage'[c])
      BY <1>2
    <3>3. (SettledIn(s) \cup {c}) \X (1 .. MaxTokens)
            = (SettledIn(s) \X (1 .. MaxTokens)) \cup ({c} \X (1 .. MaxTokens))
      OBVIOUS
    <3>4. {t \in SettledIn(s) \X (1 .. MaxTokens) : t[2] <= usage'[t[1]]} = Told(s)
      BY <3>1 DEF Told
    <3>5. Told(s)' = {t \in SettledIn(s) \X (1 .. MaxTokens) : t[2] <= usage'[t[1]]}
                       \cup {t \in {c} \X (1 .. MaxTokens) : t[2] <= usage'[t[1]]}
      BY <2>4, <3>3 DEF Told
    <3> QED
      BY <3>2, <3>4, <3>5
  <2>7. Told(s) \cap ({c} \X (1 .. usage'[c])) = {}
    BY <2>3 DEF Told
  <2>8. IsFiniteSet(Told(s)) /\ Cardinality(Told(s)) \in Nat
    BY ToldAreFinite, FS_CardinalityType
  <2>9. Cardinality(Told(s)') = Cardinality(Told(s)) + usage'[c]
    <3>1. /\ IsFiniteSet({c} \X (1 .. usage'[c]))
          /\ Cardinality({c} \X (1 .. usage'[c])) = usage'[c]
      BY <1>2, TokensOfOne
    <3>2. Cardinality(Told(s) \cup ({c} \X (1 .. usage'[c])))
            = Cardinality(Told(s)) + Cardinality({c} \X (1 .. usage'[c]))
                - Cardinality(Told(s) \cap ({c} \X (1 .. usage'[c])))
      BY <2>8, <3>1, FS_Union
    <3>3. Cardinality(Told(s) \cap ({c} \X (1 .. usage'[c]))) = 0
      BY <2>7, FS_EmptySet
    <3> QED
      BY <1>2, <2>6, <2>8, <3>1, <3>2, <3>3
  <2>10. Reported(s) = Cardinality(Told(s)) /\ Reported(s)' = Cardinality(Told(s)')
    BY ToldAreFinite DEF Reported, Told
  <2> QED
    BY <2>3, <2>5, <2>9, <2>10
<1>4. ASSUME NEW s \in Scopes, s \notin Chain(scope[c])
      PROVE  Reported(s)' = Reported(s) /\ Under(s)' = Under(s)
  <2>1. \A d \in Calls : /\ d \in SettledIn(s)' <=> d \in SettledIn(s)
                         /\ d \in Under(s)' <=> d \in Under(s)
    BY <1>1, <1>4, SettledInChain, SettledInChainThen
  <2>2. SettledIn(s)' = SettledIn(s)
    BY <2>1 DEF SettledIn, Settled
  <2>3. Under(s)' = Under(s)
    BY <2>1 DEF Under, Within
  <2>4. c \notin SettledIn(s)
    BY SettledInChain
  <2>5. \A t \in SettledIn(s) \X (1 .. MaxTokens) : usage'[t[1]] = usage[t[1]]
    BY <2>4 DEF SettledIn, Settled
  <2>6. {t \in SettledIn(s)' \X (1 .. MaxTokens) : t[2] <= usage'[t[1]]}
          = {t \in SettledIn(s) \X (1 .. MaxTokens) : t[2] <= usage[t[1]]}
    BY <2>2, <2>5
  <2> QED
    BY <2>3, <2>6 DEF Reported
<1>5. BillInv'
  <2> SUFFICES ASSUME NEW s \in Scopes PROVE spent'[s] = Reported(s)'
    BY DEF BillInv
  <2> QED
    BY <1>3, <1>4 DEF BillInv
<1>6. BudgetInv'
  <2> SUFFICES ASSUME NEW s \in Scopes
               PROVE  \/ spent'[s] = 0 /\ Under(s)' = {}
                      \/ spent'[s] + MaxTokens * Cardinality(Under(s)')
                           < Budget[s] + MaxTokens * beside'[s]
    BY DEF BudgetInv
  <2>1. CASE s \in Chain(scope[c])
    <3> DEFINE k == Cardinality(Under(s)')
    <3>1. Cardinality(Under(s)) = k + 1 /\ k \in Nat
      <4>1. Cardinality(Under(s)') = Cardinality(Under(s)) - 1 /\ IsFiniteSet(Under(s)')
        BY <1>3, <2>1, UnderIsFinite, FS_RemoveElement
      <4>2. Cardinality(Under(s)') \in Nat
        BY <4>1, FS_CardinalityType
      <4> QED
        BY <4>1, <4>2, UnderIsFinite
    <3>2. spent[s] + MaxTokens * (k + 1) < Budget[s] + MaxTokens * beside[s]
      BY <1>3, <2>1, <3>1 DEF BudgetInv
    <3>3. MaxTokens * k \in Nat /\ MaxTokens * (k + 1) = MaxTokens * k + MaxTokens
      BY <1>2, <3>1, Scaled
    <3>4. spent[s] \in Nat /\ Budget[s] \in Nat /\ MaxTokens * beside[s] \in Nat
      BY <1>2, ScopesAssumption, Scaled DEF TypeOK
    <3>5. spent'[s] = spent[s] + usage'[c]
      BY <2>1
    <3> HIDE DEF k
    <3>6. spent'[s] + MaxTokens * k < Budget[s] + MaxTokens * beside[s]
      BY <1>2, <3>2, <3>3, <3>4, <3>5
    <3> QED
      BY <3>6 DEF k
  <2>2. CASE s \notin Chain(scope[c])
    BY <1>4, <2>2 DEF BudgetInv
  <2> QED
    BY <2>1, <2>2
<1> QED
  BY <1>5, <1>6

\* A call is admitted where every scope of its chain has some of its budget left.
LEMMA MoneyBegins ==
  ASSUME TypeOK, TypeOK', BillInv, BudgetInv,
         NEW c \in Calls, stage[c] = "idle", scope[c] = NoScope,
         NEW s \in Scopes, \A r \in Chain(s) : spent[r] < Budget[r],
         stage' = [stage EXCEPT ![c] = "trying"], scope' = [scope EXCEPT ![c] = s],
         UNCHANGED <<usage, spent>>,
         beside' = [r \in Scopes |-> IF r \in Chain(s)
                                     THEN Cardinality(Under(r)) + 1 ELSE beside[r]]
  PROVE  BillInv' /\ BudgetInv'
<1>1. /\ stage'[c] = "trying" /\ scope'[c] = s
      /\ \A d \in Calls : d # c => stage'[d] = stage[d] /\ scope'[d] = scope[d]
  BY DEF TypeOK
<1>2. ASSUME NEW r \in Scopes
      PROVE  SettledIn(r)' = SettledIn(r) /\ Reported(r)' = Reported(r)
  <2>1. \A d \in Calls : d \in SettledIn(r)' <=> d \in SettledIn(r)
    BY <1>1, SettledInChain, SettledInChainThen
  <2>2. SettledIn(r)' = SettledIn(r)
    BY <2>1 DEF SettledIn, Settled
  <2> QED
    BY <2>2 DEF Reported
<1>3. BillInv'
  BY <1>2 DEF BillInv
<1>4. BudgetInv'
  <2> SUFFICES ASSUME NEW r \in Scopes
               PROVE  \/ spent'[r] = 0 /\ Under(r)' = {}
                      \/ spent'[r] + MaxTokens * Cardinality(Under(r)')
                           < Budget[r] + MaxTokens * beside'[r]
    BY DEF BudgetInv
  <2>1. CASE r \in Chain(s)
    <3>1. \A d \in Calls : d \in Under(r)' <=> d \in Under(r) \/ d = c
      BY <1>1, <2>1, SettledInChain, SettledInChainThen
    <3>2. c \notin Under(r)
      BY NoScopeAssumption, SettledInChain
    <3>3. Under(r)' = Under(r) \cup {c}
      BY <3>1 DEF Under, Within
    <3>4. Cardinality(Under(r)') = Cardinality(Under(r)) + 1
      BY <3>2, <3>3, UnderIsFinite, FS_AddElement
    <3>5. beside'[r] = Cardinality(Under(r)) + 1 /\ Cardinality(Under(r)) + 1 \in Nat
      BY <2>1, UnderIsFinite
    <3>6. MaxTokens * beside'[r] \in Nat
      BY <3>5, MaxTokensAssumption, Scaled
    <3>7. spent'[r] < Budget[r] /\ spent'[r] \in Nat /\ Budget[r] \in Nat
      BY <2>1, ScopesAssumption DEF TypeOK
    <3>8. MaxTokens * Cardinality(Under(r)') = MaxTokens * beside'[r]
      BY <3>4, <3>5
    <3> QED
      BY <3>6, <3>7, <3>8
  <2>2. CASE r \notin Chain(s)
    <3>1. \A d \in Calls : d \in Under(r)' <=> d \in Under(r)
      BY <1>1, <2>2, NoScopeAssumption, SettledInChain, SettledInChainThen
    <3>2. Under(r)' = Under(r)
      BY <3>1 DEF Under, Within
    <3>3. beside'[r] = beside[r]
      BY <2>2
    <3> QED
      BY <3>2, <3>3 DEF BudgetInv
  <2> QED
    BY <2>1, <2>2
<1> QED
  BY <1>3, <1>4

\* A call goes on, and its response or stream is not over: no money moves.
LEMMA MoneyWaits ==
  ASSUME TypeOK, BillInv, BudgetInv, NEW c \in Calls, stage[c] # "done",
         NEW v, v # "done", stage' = [stage EXCEPT ![c] = v],
         UNCHANGED <<scope, spent, beside>>,
         \A d \in Calls : d # c => usage'[d] = usage[d]
  PROVE  BillInv' /\ BudgetInv'
<1>1. \A d \in Calls : stage'[d] = "done" <=> stage[d] = "done"
  BY DEF TypeOK
<1>2. Settled' = Settled
  BY <1>1 DEF Settled
<1>3. \A s \in Scopes : SettledIn(s)' = SettledIn(s) /\ Under(s)' = Under(s)
  BY <1>2 DEF SettledIn, Under, Within
<1>4. \A d \in Calls : stage[d] = "done" => usage'[d] = usage[d]
  OBVIOUS
<1> QED
  BY <1>3, <1>4, MoneyKept

\* A call fails for good, or gives up: it has reported nothing and nobody pays.
LEMMA MoneyIsNotOwed ==
  ASSUME TypeOK, TypeOK', BillInv, BudgetInv,
         NEW c \in Calls, stage[c] # "done", scope[c] \in Scopes, usage[c] = 0,
         stage' = [stage EXCEPT ![c] = "done"], UNCHANGED <<scope, usage, spent, beside>>
  PROVE  BillInv' /\ BudgetInv'
<1>1. spent' = [s \in Scopes |->
                  IF s \in Chain(scope[c]) THEN spent[s] + usage'[c] ELSE spent[s]]
  BY DEF TypeOK
<1> QED
  BY <1>1, MoneySettles

-----------------------------------------------------------------------------
(* The steps of a call *)

\* What a step must look at to keep calls where they belong.
LEMMA StageMoves ==
  ASSUME TypeOK, StageInv, NEW c \in Calls, NEW v, stage' = [stage EXCEPT ![c] = v],
         \A d \in Calls : d # c => /\ scope'[d] = scope[d]
                                   /\ usage'[d] = usage[d]
                                   /\ attempt'[d] = attempt[d],
         v # "idle",
         v # "done" => scope'[c] \in Scopes,
         v \notin {"streaming", "done"} \/ scope'[c] = NoScope => usage'[c] = 0,
         v \in {"trying", "backoff"} => attempt'[c] < Attempts
  PROVE  StageInv'
<1>1. stage'[c] = v /\ \A d \in Calls : d # c => stage'[d] = stage[d]
  BY DEF TypeOK
<1> SUFFICES ASSUME NEW d \in Calls
             PROVE  /\ stage'[d] = "idle" => scope'[d] = NoScope
                    /\ stage'[d] \notin {"idle", "done"} => scope'[d] \in Scopes
                    /\ stage'[d] \notin {"streaming", "done"} => usage'[d] = 0
                    /\ scope'[d] = NoScope => usage'[d] = 0
                    /\ stage'[d] \in {"idle", "trying", "backoff"} => attempt'[d] < Attempts
  BY DEF StageInv
<1>2. CASE d = c
  BY <1>1, <1>2
<1>3. CASE d # c
  BY <1>1, <1>3 DEF StageInv
<1> QED
  BY <1>2, <1>3

CircuitOK ==
  /\ failures \in 0 .. Threshold
  /\ open \in BOOLEAN
  /\ cooled \in BOOLEAN
  /\ probe \in {"none", "young", "stale"}

LEMMA BeginKeeps ==
  ASSUME IInv, NEW c \in Calls, NEW s \in Scopes, NEW stream \in BOOLEAN, Begin(c, s, stream)
  PROVE  IInv'
<1>1. /\ stage[c] = "idle" /\ \A r \in Chain(s) : spent[r] < Budget[r]
      /\ stage' = [stage EXCEPT ![c] = "trying"] /\ scope' = [scope EXCEPT ![c] = s]
      /\ streams' = [streams EXCEPT ![c] = stream]
      /\ beside' = [r \in Scopes |-> IF r \in Chain(s)
                                     THEN Cardinality(Under(r)) + 1 ELSE beside[r]]
      /\ UNCHANGED <<attempt, failovers, usage, aborted, failures, open, cooled, probe, spent>>
  BY DEF Begin, Under, circuit
<1>2. scope[c] = NoScope /\ usage[c] = 0 /\ attempt[c] < Attempts
  BY <1>1 DEF IInv, StageInv
<1>3. TypeOK'
  <2>1. stage' \in [Calls -> Stages] /\ scope' \in [Calls -> Scopes \cup {NoScope}]
    BY <1>1 DEF IInv, TypeOK, Stages
  <2>2. streams' \in [Calls -> BOOLEAN]
    BY <1>1 DEF IInv, TypeOK
  <2>3. beside' \in [Scopes -> Nat]
    <3>1. \A r \in Scopes : beside[r] \in Nat /\ Cardinality(Under(r)) + 1 \in Nat
      BY UnderIsFinite DEF IInv, TypeOK
    <3> QED
      BY <1>1, <3>1
  <2> QED
    BY <1>1, <2>1, <2>2, <2>3 DEF IInv, TypeOK
<1>4. StageInv'
  <2>1. scope'[c] = s /\ \A d \in Calls : d # c => scope'[d] = scope[d]
    BY <1>1 DEF IInv, TypeOK
  <2> QED
    BY <1>1, <1>2, <2>1, NoScopeAssumption, StageMoves DEF IInv
<1>5. BillInv' /\ BudgetInv'
  BY <1>1, <1>2, <1>3, MoneyBegins DEF IInv
<1> QED
  BY <1>3, <1>4, <1>5 DEF IInv

\* A call that is refused belongs to no scope.
LEMMA RefuseKeeps ==
  ASSUME IInv, NEW c \in Calls, NEW s \in Scopes, Refuse(c, s)
  PROVE  IInv'
<1>1. /\ stage[c] = "idle" /\ stage' = [stage EXCEPT ![c] = "done"]
      /\ UNCHANGED <<scope, streams, attempt, failovers, usage, aborted>>
      /\ UNCHANGED <<failures, open, cooled, probe, spent, beside>>
  BY DEF Refuse, circuit
<1>2. scope[c] = NoScope /\ usage[c] = 0
  BY <1>1 DEF IInv, StageInv
<1>3. TypeOK'
  <2>1. stage' \in [Calls -> Stages]
    BY <1>1 DEF IInv, TypeOK, Stages
  <2> QED
    BY <1>1, <2>1 DEF IInv, TypeOK
<1>4. StageInv'
  BY <1>1, <1>2, StageMoves DEF IInv
<1>5. BillInv' /\ BudgetInv'
  <2>1. \A d \in Calls : d # c => stage'[d] = stage[d]
    BY <1>1 DEF IInv, TypeOK
  <2>2. ASSUME NEW r \in Scopes
        PROVE  SettledIn(r)' = SettledIn(r) /\ Under(r)' = Under(r)
    <3>1. \A d \in Calls : /\ d \in SettledIn(r)' <=> d \in SettledIn(r)
                           /\ d \in Under(r)' <=> d \in Under(r)
      <4> TAKE d \in Calls
      <4>1. CASE d = c
        BY <1>1, <1>2, <1>3, <4>1, NoScopeAssumption, SettledInChain, SettledInChainThen DEF IInv
      <4>2. CASE d # c
        BY <1>1, <1>3, <2>1, <4>2, SettledInChain, SettledInChainThen DEF IInv
      <4> QED
        BY <4>1, <4>2
    <3>2. SettledIn(r)' = SettledIn(r)
      BY <3>1 DEF SettledIn, Settled
    <3>3. Under(r)' = Under(r)
      BY <3>1 DEF Under, Within
    <3> QED
      BY <3>2, <3>3
  <2> QED
    BY <1>1, <2>2, MoneyKept DEF IInv
<1> QED
  BY <1>3, <1>4, <1>5 DEF IInv

\* A call whose attempt did not answer waits, asks a secondary or settles with nothing.
LEMMA FailureKeeps ==
  ASSUME IInv, NEW c \in Calls, stage[c] \in {"trying", "primary", "secondary"},
         NEW v \in {"backoff", "secondary", "done"}, stage' = [stage EXCEPT ![c] = v],
         v = "backoff" => attempt[c] < Attempts,
         failovers' \in [Calls -> 0 .. Secondaries], CircuitOK',
         UNCHANGED <<scope, streams, attempt, usage, aborted, spent, beside>>
  PROVE  IInv'
<1>1. scope[c] \in Scopes /\ usage[c] = 0
  BY DEF IInv, StageInv
<1>2. TypeOK'
  <2>1. stage' \in [Calls -> Stages]
    BY DEF IInv, TypeOK, Stages
  <2> QED
    BY <2>1 DEF IInv, TypeOK, CircuitOK
<1>3. StageInv'
  BY <1>1, StageMoves DEF IInv
<1>4. BillInv' /\ BudgetInv'
  <2>1. CASE v = "done"
    BY <1>1, <1>2, <2>1, MoneyIsNotOwed DEF IInv
  <2>2. CASE v # "done"
    BY <2>2, MoneyWaits DEF IInv
  <2> QED
    BY <2>1, <2>2
<1> QED
  BY <1>2, <1>3, <1>4 DEF IInv

\* A response settles its call and is billed; a stream has only begun.
LEMMA AnswerKeeps ==
  ASSUME IInv, NEW c \in Calls, stage[c] \in {"primary", "secondary"},
         NEW t \in Tokens, Answered(c, t), CircuitOK',
         UNCHANGED <<scope, streams, attempt, failovers, aborted, beside>>
  PROVE  IInv'
<1>1. scope[c] \in Scopes /\ usage[c] = 0
  BY DEF IInv, StageInv
<1>2. CASE streams[c]
  <2>1. stage' = [stage EXCEPT ![c] = "streaming"] /\ UNCHANGED <<usage, spent>>
    BY <1>2 DEF Answered
  <2>2. TypeOK'
    <3>1. stage' \in [Calls -> Stages]
      BY <2>1 DEF IInv, TypeOK, Stages
    <3> QED
      BY <2>1, <3>1 DEF IInv, TypeOK, CircuitOK
  <2>3. StageInv'
    BY <1>1, <2>1, NoScopeAssumption, StageMoves DEF IInv
  <2>4. BillInv' /\ BudgetInv'
    BY <2>1, MoneyWaits DEF IInv
  <2> QED
    BY <2>2, <2>3, <2>4 DEF IInv
<1>3. CASE ~streams[c]
  <2>1. /\ stage' = [stage EXCEPT ![c] = "done"] /\ usage' = [usage EXCEPT ![c] = t]
        /\ spent' = [s \in Scopes |->
                       IF s \in Chain(scope[c]) THEN spent[s] + t ELSE spent[s]]
    BY <1>3 DEF Answered, Bill
  <2>2. usage'[c] = t /\ \A d \in Calls : d # c => usage'[d] = usage[d]
    BY <2>1 DEF IInv, TypeOK
  <2>3. TypeOK'
    <3>1. stage' \in [Calls -> Stages]
      BY <2>1 DEF IInv, TypeOK, Stages
    <3>2. usage' \in [Calls -> Tokens]
      BY <2>1 DEF IInv, TypeOK
    <3>3. spent' \in [Scopes -> Nat]
      <4>1. t \in Nat
        BY MaxTokensAssumption DEF Tokens
      <4> QED
        BY <2>1, <4>1 DEF IInv, TypeOK
    <3> QED
      BY <3>1, <3>2, <3>3 DEF IInv, TypeOK, CircuitOK
  <2>4. StageInv'
    BY <1>1, <2>1, <2>2, NoScopeAssumption, StageMoves DEF IInv
  <2>5. BillInv' /\ BudgetInv'
    BY <1>1, <2>1, <2>2, <2>3, MoneySettles DEF IInv
  <2> QED
    BY <2>3, <2>4, <2>5 DEF IInv
<1> QED
  BY <1>2, <1>3

LEMMA FinishPartKeeps ==
  ASSUME IInv, NEW c \in Calls, NEW t \in Tokens, FinishPart(c, t)
  PROVE  IInv'
<1>1. /\ stage[c] = "streaming" /\ usage' = [usage EXCEPT ![c] = t]
      /\ UNCHANGED <<stage, scope, streams, attempt, failovers, aborted>>
      /\ UNCHANGED <<failures, open, cooled, probe, spent, beside>>
  BY DEF FinishPart, circuit
<1>2. \A d \in Calls : d # c => usage'[d] = usage[d]
  BY <1>1 DEF IInv, TypeOK
<1>3. scope[c] \in Scopes
  BY <1>1 DEF IInv, StageInv
<1>4. stage' = [stage EXCEPT ![c] = "streaming"]
  BY <1>1 DEF IInv, TypeOK
<1>5. TypeOK'
  <2>1. usage' \in [Calls -> Tokens]
    BY <1>1 DEF IInv, TypeOK
  <2> QED
    BY <1>1, <2>1 DEF IInv, TypeOK
<1>6. StageInv'
  BY <1>1, <1>2, <1>3, <1>4, NoScopeAssumption, StageMoves DEF IInv
<1>7. BillInv' /\ BudgetInv'
  BY <1>1, <1>2, <1>4, MoneyWaits DEF IInv
<1> QED
  BY <1>5, <1>6, <1>7 DEF IInv

LEMMA StreamEndsKeeps ==
  ASSUME IInv, NEW c \in Calls, StreamEnds(c)
  PROVE  IInv'
<1>1. /\ stage[c] = "streaming" /\ stage' = [stage EXCEPT ![c] = "done"]
      /\ spent' = [s \in Scopes |->
                     IF s \in Chain(scope[c]) THEN spent[s] + usage[c] ELSE spent[s]]
      /\ UNCHANGED <<scope, streams, attempt, failovers, usage, aborted>>
      /\ UNCHANGED <<failures, open, cooled, probe, beside>>
  BY DEF StreamEnds, Bill, circuit
<1>2. scope[c] \in Scopes
  BY <1>1 DEF IInv, StageInv
<1>3. TypeOK'
  <2>1. stage' \in [Calls -> Stages]
    BY <1>1 DEF IInv, TypeOK, Stages
  <2>2. spent' \in [Scopes -> Nat]
    <3>1. usage[c] \in Nat
      BY MaxTokensAssumption DEF IInv, TypeOK, Tokens
    <3> QED
      BY <1>1, <3>1 DEF IInv, TypeOK
  <2> QED
    BY <1>1, <2>1, <2>2 DEF IInv, TypeOK
<1>4. StageInv'
  BY <1>1, <1>2, NoScopeAssumption, StageMoves DEF IInv
<1>5. BillInv' /\ BudgetInv'
  BY <1>1, <1>2, <1>3, MoneySettles DEF IInv
<1> QED
  BY <1>3, <1>4, <1>5 DEF IInv

LEMMA BackoffEndsKeeps ==
  ASSUME IInv, NEW c \in Calls, BackoffEnds(c)
  PROVE  IInv'
<1> DEFINE v == IF c \in aborted THEN "done" ELSE "trying"
<1>1. /\ stage[c] = "backoff" /\ stage' = [stage EXCEPT ![c] = v]
      /\ UNCHANGED <<scope, streams, attempt, failovers, usage, aborted>>
      /\ UNCHANGED <<failures, open, cooled, probe, spent, beside>>
  BY DEF BackoffEnds, circuit
<1>2. v \in {"done", "trying"}
  OBVIOUS
<1> HIDE DEF v
<1>3. scope[c] \in Scopes /\ usage[c] = 0 /\ attempt[c] < Attempts
  BY <1>1 DEF IInv, StageInv
<1>4. TypeOK'
  <2>1. stage' \in [Calls -> Stages]
    BY <1>1, <1>2 DEF IInv, TypeOK, Stages
  <2> QED
    BY <1>1, <2>1 DEF IInv, TypeOK
<1>5. StageInv'
  BY <1>1, <1>2, <1>3, StageMoves DEF IInv
<1>6. BillInv' /\ BudgetInv'
  <2>1. CASE v = "done"
    BY <1>1, <1>3, <1>4, <2>1, MoneyIsNotOwed DEF IInv
  <2>2. CASE v # "done"
    BY <1>1, <2>2, MoneyWaits DEF IInv
  <2> QED
    BY <2>1, <2>2
<1> QED
  BY <1>4, <1>5, <1>6 DEF IInv

\* A step that moves no call: an abort, or time.
LEMMA CallsKept ==
  ASSUME IInv, UNCHANGED <<call, spent, beside>>, aborted' \subseteq Calls, CircuitOK'
  PROVE  IInv'
<1>1. UNCHANGED <<stage, scope, streams, attempt, failovers, usage, spent, beside>>
  BY DEF call
<1>2. TypeOK'
  BY <1>1 DEF IInv, TypeOK, CircuitOK
<1>3. StageInv'
  BY <1>1 DEF IInv, StageInv
<1>4. \A s \in Scopes : SettledIn(s)' = SettledIn(s) /\ Under(s)' = Under(s)
  BY <1>1 DEF SettledIn, Settled, Under, Within
<1>5. BillInv' /\ BudgetInv'
  BY <1>1, <1>4, MoneyKept DEF IInv
<1> QED
  BY <1>2, <1>3, <1>5 DEF IInv

LEMMA CircuitIsOK ==
  ASSUME IInv, UNCHANGED circuit
  PROVE  CircuitOK'
  BY DEF IInv, TypeOK, CircuitOK, circuit

LEMMA AbortKeeps ==
  ASSUME IInv, NEW c \in Calls, Abort(c)
  PROVE  IInv'
<1>1. aborted' \subseteq Calls
  BY DEF Abort, IInv, TypeOK
<1> QED
  BY <1>1, CallsKept, CircuitIsOK DEF Abort

LEMMA TimeKeeps ==
  ASSUME IInv, Cool \/ LeaseRunsOut
  PROVE  IInv'
<1>1. CircuitOK'
  BY DEF Cool, LeaseRunsOut, IInv, TypeOK, CircuitOK
<1>2. UNCHANGED <<call, aborted, spent, beside>>
  BY DEF Cool, LeaseRunsOut
<1> QED
  BY <1>1, <1>2, CallsKept DEF IInv, TypeOK

LEMMA TryKeeps ==
  ASSUME IInv, NEW c \in Calls, Try(c)
  PROVE  IInv'
<1>1. /\ stage[c] = "trying" /\ stage' = [stage EXCEPT ![c] = "primary"]
      /\ attempt' = [attempt EXCEPT ![c] = attempt[c] + 1]
      /\ probe' = IF open THEN "young" ELSE probe
      /\ UNCHANGED <<scope, streams, failovers, usage, aborted, failures, open, cooled>>
      /\ UNCHANGED <<spent, beside>>
  BY DEF Try
<1>2. scope[c] \in Scopes /\ usage[c] = 0 /\ attempt[c] < Attempts
  BY <1>1 DEF IInv, StageInv
<1>3. TypeOK'
  <2>1. stage' \in [Calls -> Stages]
    BY <1>1 DEF IInv, TypeOK, Stages
  <2>2. attempt' \in [Calls -> 0 .. Attempts]
    <3>1. attempt[c] + 1 \in 0 .. Attempts
      BY <1>2, AttemptsAssumption DEF IInv, TypeOK
    <3> QED
      BY <1>1, <3>1 DEF IInv, TypeOK
  <2>3. probe' \in {"none", "young", "stale"}
    BY <1>1 DEF IInv, TypeOK
  <2> QED
    BY <1>1, <2>1, <2>2, <2>3 DEF IInv, TypeOK
<1>4. StageInv'
  <2>1. \A d \in Calls : d # c => attempt'[d] = attempt[d]
    BY <1>1 DEF IInv, TypeOK
  <2> QED
    BY <1>1, <1>2, <2>1, StageMoves DEF IInv
<1>5. BillInv' /\ BudgetInv'
  BY <1>1, MoneyWaits DEF IInv
<1> QED
  BY <1>3, <1>4, <1>5 DEF IInv

\* Where a failed call goes.
LEMMA FailOverGoes ==
  ASSUME IInv, NEW c \in Calls, FailOver(c) \/ GiveUp(c)
  PROVE  /\ failovers' \in [Calls -> 0 .. Secondaries]
         /\ \E v \in {"backoff", "secondary", "done"} :
              v # "backoff" /\ stage' = [stage EXCEPT ![c] = v]
<1>1. CASE FailOver(c) /\ c \notin aborted /\ failovers[c] < Secondaries
  <2>1. /\ stage' = [stage EXCEPT ![c] = "secondary"]
        /\ failovers' = [failovers EXCEPT ![c] = failovers[c] + 1]
    BY <1>1 DEF FailOver
  <2>2. failovers[c] + 1 \in 0 .. Secondaries
    BY <1>1, SecondariesAssumption DEF IInv, TypeOK
  <2> QED
    BY <2>1, <2>2 DEF IInv, TypeOK
<1>2. CASE ~(FailOver(c) /\ c \notin aborted /\ failovers[c] < Secondaries)
  BY <1>2 DEF FailOver, GiveUp, IInv, TypeOK
<1> QED
  BY <1>1, <1>2

LEMMA AttemptFailedGoes ==
  ASSUME IInv, NEW c \in Calls, NEW error \in Errors, AttemptFailed(c, error)
  PROVE  /\ failovers' \in [Calls -> 0 .. Secondaries]
         /\ \E v \in {"backoff", "secondary", "done"} :
              /\ stage' = [stage EXCEPT ![c] = v]
              /\ v = "backoff" => attempt[c] < Attempts
<1>1. CASE Retries(c, error)
  BY <1>1 DEF AttemptFailed, Retries, IInv, TypeOK
<1>2. CASE ~Retries(c, error)
  BY <1>2, FailOverGoes DEF AttemptFailed
<1> QED
  BY <1>1, <1>2

LEMMA StopTryingKeeps ==
  ASSUME IInv, NEW c \in Calls, StopTrying(c) \/ FailFast(c)
  PROVE  IInv'
<1>1. /\ stage[c] = "trying" /\ (FailOver(c) \/ GiveUp(c)) /\ UNCHANGED circuit
      /\ UNCHANGED <<scope, streams, attempt, usage, aborted, spent, beside>>
  BY DEF StopTrying, FailFast
<1> QED
  BY <1>1, FailOverGoes, FailureKeeps, CircuitIsOK

LEMMA SecondaryFailsKeeps ==
  ASSUME IInv, NEW c \in Calls, NEW error \in Errors, SecondaryFails(c, error)
  PROVE  IInv'
<1>1. /\ stage[c] = "secondary" /\ (FailOver(c) \/ GiveUp(c)) /\ UNCHANGED circuit
      /\ UNCHANGED <<scope, streams, attempt, usage, aborted, spent, beside>>
  BY DEF SecondaryFails
<1> QED
  BY <1>1, FailOverGoes, FailureKeeps, CircuitIsOK

LEMMA PrimaryFailsKeeps ==
  ASSUME IInv, NEW c \in Calls, NEW error \in Errors, PrimaryFails(c, error)
  PROVE  IInv'
<1>1. /\ stage[c] = "primary" /\ AttemptFailed(c, error)
      /\ UNCHANGED <<scope, streams, attempt, usage, aborted, spent, beside>>
  BY DEF PrimaryFails
<1>2. CircuitOK'
  <2>1. CASE RecordFailure
    <3>1. failures' \in 0 .. Threshold
      BY <2>1, ThresholdAssumption DEF RecordFailure, IInv, TypeOK
    <3>2. open' \in BOOLEAN
      BY <2>1, Zenon DEF RecordFailure
    <3>3. cooled' \in BOOLEAN /\ probe' \in {"none", "young", "stale"}
      BY <2>1 DEF RecordFailure
    <3> QED
      BY <3>1, <3>2, <3>3 DEF CircuitOK
  <2>2. CASE RecordNeutral
    BY <2>2 DEF RecordNeutral, IInv, TypeOK, CircuitOK
  <2> QED
    BY <2>1, <2>2 DEF PrimaryFails
<1> QED
  BY <1>1, <1>2, AttemptFailedGoes, FailureKeeps

LEMMA AnswersKeep ==
  ASSUME IInv, NEW c \in Calls, NEW t \in Tokens, PrimaryAnswers(c, t) \/ SecondaryAnswers(c, t)
  PROVE  IInv'
<1>1. /\ stage[c] \in {"primary", "secondary"} /\ Answered(c, t)
      /\ UNCHANGED <<scope, streams, attempt, failovers, aborted, beside>>
  BY DEF PrimaryAnswers, SecondaryAnswers
<1>2. CircuitOK'
  <2>1. CASE PrimaryAnswers(c, t)
    <3>1. failures' = 0 /\ open' = FALSE /\ cooled' = FALSE /\ probe' = "none"
      BY <2>1 DEF PrimaryAnswers
    <3>2. failures' \in 0 .. Threshold
      BY <3>1, ThresholdAssumption
    <3>3. open' \in BOOLEAN /\ cooled' \in BOOLEAN
      BY <3>1, Zenon
    <3>4. probe' \in {"none", "young", "stale"}
      BY <3>1
    <3> QED
      BY <3>2, <3>3, <3>4 DEF CircuitOK
  <2>2. CASE SecondaryAnswers(c, t)
    BY <2>2, CircuitIsOK DEF SecondaryAnswers
  <2> QED
    BY <2>1, <2>2
<1> QED
  BY <1>1, <1>2, AnswerKeeps

-----------------------------------------------------------------------------
(* The theorems *)

LEMMA InitEstablishes == Init => IInv
<1> SUFFICES ASSUME Init PROVE IInv
  OBVIOUS
<1>1. TypeOK
  <2>1. /\ stage \in [Calls -> Stages] /\ scope \in [Calls -> Scopes \cup {NoScope}]
        /\ streams \in [Calls -> BOOLEAN]
    BY DEF Init, Stages
  <2>2. /\ attempt \in [Calls -> 0 .. Attempts] /\ failovers \in [Calls -> 0 .. Secondaries]
        /\ usage \in [Calls -> Tokens] /\ failures \in 0 .. Threshold
    BY AttemptsAssumption, SecondariesAssumption, MaxTokensAssumption, ThresholdAssumption
       DEF Init, Tokens
  <2>3. spent \in [Scopes -> Nat] /\ beside \in [Scopes -> Nat]
    BY DEF Init
  <2>4. open \in BOOLEAN /\ cooled \in BOOLEAN
    BY Zenon DEF Init
  <2>5. aborted \subseteq Calls /\ probe \in {"none", "young", "stale"}
    BY DEF Init
  <2> QED
    BY <2>1, <2>2, <2>3, <2>4, <2>5 DEF TypeOK
<1>2. StageInv
  BY AttemptsAssumption DEF Init, StageInv
<1>3. \A s \in Scopes : SettledIn(s) = {} /\ Under(s) = {}
  BY NoScopeAssumption DEF Init, SettledIn, Settled, Under, Within
<1>4. BillInv
  <2>1. \A s \in Scopes : Told(s) = {}
    BY <1>3 DEF Told
  <2>2. \A s \in Scopes : Reported(s) = 0
    BY <2>1, ToldAreFinite, FS_EmptySet
  <2> QED
    BY <2>2 DEF Init, BillInv
<1>5. BudgetInv
  BY <1>3 DEF Init, BudgetInv
<1> QED
  BY <1>1, <1>2, <1>4, <1>5 DEF IInv

LEMMA NextKeeps == IInv /\ [Next]_vars => IInv'
<1> SUFFICES ASSUME IInv, [Next]_vars PROVE IInv'
  OBVIOUS
<1>1. ASSUME NEW c \in Calls, NEW s \in Scopes, NEW stream \in BOOLEAN, Begin(c, s, stream)
      PROVE  IInv'
  BY <1>1, BeginKeeps
<1>2. ASSUME NEW c \in Calls, NEW s \in Scopes, Refuse(c, s) PROVE IInv'
  BY <1>2, RefuseKeeps
<1>3. ASSUME NEW c \in Calls, Abort(c) PROVE IInv'
  BY <1>3, AbortKeeps
<1>4. ASSUME NEW c \in Calls, Try(c) PROVE IInv'
  BY <1>4, TryKeeps
<1>5. ASSUME NEW c \in Calls, StopTrying(c) \/ FailFast(c) PROVE IInv'
  BY <1>5, StopTryingKeeps
<1>6. ASSUME NEW c \in Calls, BackoffEnds(c) PROVE IInv'
  BY <1>6, BackoffEndsKeeps
<1>7. ASSUME NEW c \in Calls, StreamEnds(c) PROVE IInv'
  BY <1>7, StreamEndsKeeps
<1>8. ASSUME NEW c \in Calls, NEW t \in Tokens, PrimaryAnswers(c, t) \/ SecondaryAnswers(c, t)
      PROVE  IInv'
  BY <1>8, AnswersKeep
<1>9. ASSUME NEW c \in Calls, NEW t \in Tokens, FinishPart(c, t) PROVE IInv'
  BY <1>9, FinishPartKeeps
<1>10. ASSUME NEW c \in Calls, NEW e \in Errors, PrimaryFails(c, e) PROVE IInv'
  BY <1>10, PrimaryFailsKeeps
<1>11. ASSUME NEW c \in Calls, NEW e \in Errors, SecondaryFails(c, e) PROVE IInv'
  BY <1>11, SecondaryFailsKeeps
<1>12. CASE Cool \/ LeaseRunsOut
  BY <1>12, TimeKeeps
<1>13. CASE UNCHANGED vars
  BY <1>13, CallsKept, CircuitIsOK DEF vars, IInv, TypeOK
<1> QED
  BY <1>1, <1>2, <1>3, <1>4, <1>5, <1>6, <1>7, <1>8, <1>9, <1>10, <1>11, <1>12, <1>13 DEF Next

LEMMA Inductive == Spec => []IInv
<1>1. Init => IInv
  BY InitEstablishes
<1>2. IInv /\ [Next]_vars => IInv'
  BY NextKeeps
<1> QED
  BY <1>1, <1>2, PTL DEF Spec

\* Calls, circuit and scopes keep the shape of their initial values; no call makes
\* more attempts than it has, nor asks more secondaries than there are.
THEOREM TypeCorrect == Spec => []TypeOK
<1>1. IInv => TypeOK
  BY DEF IInv
<1> QED
  BY <1>1, Inductive, PTL

\* A scope and every scope around it, at any depth, overshoot their budget by at most
\* one response for each call that was under way when the latest was admitted, whatever
\* is streamed, retried, failed over or left by its caller: preflight reads the same
\* total that settle adds to.
THEOREM BudgetsHold == Spec => []OvershootIsBounded
<1>1. ASSUME IInv
      PROVE  OvershootIsBounded
  <2> SUFFICES ASSUME NEW s \in Scopes, Reported(s) > 0
               PROVE  Reported(s) < Budget[s] + MaxTokens * beside[s]
    BY DEF OvershootIsBounded
  <2>1. Reported(s) = spent[s] /\ spent[s] \in Nat
    BY <1>1 DEF IInv, BillInv, TypeOK
  <2>2. spent[s] + MaxTokens * Cardinality(Under(s)) < Budget[s] + MaxTokens * beside[s]
    BY <1>1, <2>1 DEF IInv, BudgetInv
  <2>3. /\ MaxTokens * Cardinality(Under(s)) \in Nat
        /\ MaxTokens * beside[s] \in Nat /\ Budget[s] \in Nat
    BY <1>1, UnderIsFinite, MaxTokensAssumption, ScopesAssumption, Scaled DEF IInv, TypeOK
  <2> QED
    BY <2>1, <2>2, <2>3
<1> QED
  BY <1>1, Inductive, PTL

\* Once its caller has aborted it a call asks nobody any more: retryPolicy and
\* fallbackPolicy look at the signal before each attempt and each secondary, and
\* nothing that was decided before the abort is still carried out after it.
THEOREM CancelledCallsAskNobody == Spec => CancelledCallsStayDown
<1>1. ASSUME TypeOK, [Next]_vars
      PROVE  [\A c \in aborted : attempt'[c] = attempt[c] /\ failovers'[c] = failovers[c]]_vars
  <2> SUFFICES ASSUME Next, NEW d \in aborted
               PROVE  attempt'[d] = attempt[d] /\ failovers'[d] = failovers[d]
    BY <1>1
  <2>1. ASSUME NEW c \in Calls, FailOver(c) \/ GiveUp(c)
        PROVE  failovers'[d] = failovers[d]
    BY <1>1, <2>1 DEF FailOver, GiveUp, TypeOK
  <2>2. ASSUME NEW c \in Calls, NEW s \in Scopes, NEW stream \in BOOLEAN, Begin(c, s, stream)
        PROVE  attempt'[d] = attempt[d] /\ failovers'[d] = failovers[d]
    BY <2>2 DEF Begin
  <2>3. ASSUME NEW c \in Calls, NEW s \in Scopes, Refuse(c, s)
        PROVE  attempt'[d] = attempt[d] /\ failovers'[d] = failovers[d]
    BY <2>3 DEF Refuse
  <2>4. ASSUME NEW c \in Calls, Try(c)
        PROVE  attempt'[d] = attempt[d] /\ failovers'[d] = failovers[d]
    BY <1>1, <2>4 DEF Try, TypeOK
  <2>5. ASSUME NEW c \in Calls, StopTrying(c) \/ FailFast(c)
        PROVE  attempt'[d] = attempt[d] /\ failovers'[d] = failovers[d]
    BY <2>1, <2>5 DEF StopTrying, FailFast
  <2>6. ASSUME NEW c \in Calls, Abort(c) \/ BackoffEnds(c) \/ StreamEnds(c)
        PROVE  attempt'[d] = attempt[d] /\ failovers'[d] = failovers[d]
    BY <2>6 DEF Abort, BackoffEnds, StreamEnds, call
  <2>7. ASSUME NEW c \in Calls, NEW t \in Tokens,
               PrimaryAnswers(c, t) \/ SecondaryAnswers(c, t) \/ FinishPart(c, t)
        PROVE  attempt'[d] = attempt[d] /\ failovers'[d] = failovers[d]
    BY <2>7 DEF PrimaryAnswers, SecondaryAnswers, FinishPart
  <2>8. ASSUME NEW c \in Calls, NEW e \in Errors, SecondaryFails(c, e)
        PROVE  attempt'[d] = attempt[d] /\ failovers'[d] = failovers[d]
    BY <2>1, <2>8 DEF SecondaryFails
  <2>9. ASSUME NEW c \in Calls, NEW e \in Errors, PrimaryFails(c, e)
        PROVE  attempt'[d] = attempt[d] /\ failovers'[d] = failovers[d]
    BY <2>1, <2>9 DEF PrimaryFails, AttemptFailed
  <2>10. CASE Cool \/ LeaseRunsOut
    BY <2>10 DEF Cool, LeaseRunsOut, call
  <2> QED
    BY <2>2, <2>3, <2>4, <2>5, <2>6, <2>7, <2>8, <2>9, <2>10 DEF Next
<1> QED
  BY <1>1, TypeCorrect, PTL DEF Spec, CancelledCallsStayDown
=============================================================================
