------------------------------ MODULE TokenProofs ------------------------------
(* What is saved as the token set can always be refreshed; and while nothing  *)
(* fails nobody is signed out, and a program that starts signed in renews     *)
(* what is stored in time. For any number of token sets, lifetimes and        *)
(* restarts, and every interleaving of the session with the refresh loop.     *)
EXTENDS TokenRefresh, FiniteSetTheorems, TLAPS

USE DEF Tasks

\* What the session waits for at the token endpoint it has in hand, or a code.
Asking ==
    /\ request["Session"] \in {held, "Code", None}
    /\ request["Session"] # None => session \in {"Refreshing", "Authorizing"}

\* A token set just issued: in hand to be saved once Discord accepts it.
InHand == session = "Authenticating" /\ Saves

\* What was issued and is not saved yet is nobody else's, and is not asked with.
NobodyElses ==
    /\ \A task \in Tasks : answer[task] \in Tokens =>
          /\ answer[task] # store /\ answer[task] # held
          /\ \A other \in Tasks : answer[task] # request[other]
    /\ answer["Loop"] \in Tokens => answer["Loop"] # answer["Session"]
    /\ InHand /\ held \in Tokens =>
          held # store /\ \A other \in Tasks : held # request[other]

\* It can be refreshed, unless the user removes the application.
NewLive ==
    "Revocation" \notin world.faults =>
       /\ \A task \in Tasks : answer[task] \in Tokens => answer[task] \in live
       /\ InHand /\ held \in Tokens => held \in live

TokenInv == TypeOK /\ Asking /\ NobodyElses /\ NewLive

-----------------------------------------------------------------------------
LEMMA Words ==
    /\ None \notin Tokens /\ "Refused" \notin Tokens /\ "Unreachable" \notin Tokens
    /\ "Code" \notin Tokens /\ "Error" \notin Tokens
BY TokenRefreshAssumption

\* One element more.
LEMMA OneAdded ==
    ASSUME NEW S, NEW x, NEW n \in Nat, IsFiniteSet(S), Cardinality(S) <= n
    PROVE  IsFiniteSet(S \union {x}) /\ Cardinality(S \union {x}) <= n + 1
<1>1. Cardinality(S) \in Nat
  BY FS_CardinalityType
<1> QED BY <1>1, FS_AddElement

\* Four token sets are never all there are.
LEMMA OneMore ==
    ASSUME NEW a, NEW b, NEW c, NEW d
    PROVE  \E t \in Tokens : t \notin {a, b, c, d}
<1> SUFFICES ASSUME Tokens \subseteq {a, b, c, d} PROVE FALSE
  OBVIOUS
<1>1. IsFiniteSet({a}) /\ Cardinality({a}) <= 1
  BY FS_Singleton
<1>2. IsFiniteSet({a, b}) /\ Cardinality({a, b}) <= 2
  <2>1. IsFiniteSet({a} \union {b}) /\ Cardinality({a} \union {b}) <= 1 + 1
    BY <1>1, OneAdded
  <2>2. {a, b} = {a} \union {b}
    OBVIOUS
  <2> QED BY <2>1, <2>2
<1>3. IsFiniteSet({a, b, c}) /\ Cardinality({a, b, c}) <= 3
  <2>1. IsFiniteSet({a, b} \union {c}) /\ Cardinality({a, b} \union {c}) <= 2 + 1
    BY <1>2, OneAdded
  <2>2. {a, b, c} = {a, b} \union {c}
    OBVIOUS
  <2> QED BY <2>1, <2>2
<1>4. IsFiniteSet({a, b, c, d}) /\ Cardinality({a, b, c, d}) <= 4
  <2>1. IsFiniteSet({a, b, c} \union {d}) /\ Cardinality({a, b, c} \union {d}) <= 3 + 1
    BY <1>3, OneAdded
  <2>2. {a, b, c, d} = {a, b, c} \union {d}
    OBVIOUS
  <2> QED BY <2>1, <2>2
<1>5. Cardinality({a, b, c, d}) \in Nat
  BY <1>4, FS_CardinalityType
<1>6. Cardinality(Tokens) \in Nat /\ Cardinality(Tokens) <= 4
  BY <1>4, <1>5, FS_Subset, FS_CardinalityType
<1> QED BY <1>6, TokenRefreshAssumption

\* Whoever waits for an answer, there is a token set that nobody holds.
LEMMA SomeUnused ==
    ASSUME TypeOK, Asking, NEW task \in Tasks, Awaits(task)
    PROVE  Unused \in Tokens /\ Unused \notin InUse
<1>1. PICK other \in Tasks : other # task
  OBVIOUS
<1>2. PICK t \in Tokens : t \notin {store, held, request["Loop"], answer[other]}
  BY OneMore
<1>3. t \notin InUse
  <2>1. \A a \in Tasks : t # request[a]
    BY <1>2, Words DEF Asking
  <2>2. \A a \in Tasks : t # answer[a]
    BY <1>1, <1>2, Words DEF Awaits
  <2> QED BY <1>2, <2>1, <2>2 DEF InUse
<1> QED BY <1>2, <1>3 DEF Unused

-----------------------------------------------------------------------------
(* Types.                                                                    *)

LEMMA InitType == Init => TypeOK
<1> SUFFICES ASSUME Init PROVE TypeOK
  OBVIOUS
<1>1. world \in World
  BY TokenRefreshAssumption DEF Init
<1>2. (CHOOSE t \in Tokens : TRUE) \in Tokens
  BY OneMore
<1>3. Lifetime \in Nat
  BY TokenRefreshAssumption
<1> QED BY <1>1, <1>2, <1>3 DEF Init, TypeOK, World, LoopStates, SessionStates, Purposes

\* What the endpoint does keeps to the token sets there are.
LEMMA IssuesType ==
    ASSUME TypeOK, Asking, NEW task \in Tasks, Awaits(task), Issues(task)
    PROVE  /\ live' \subseteq Tokens /\ accepted' \subseteq Tokens
           /\ left' \in [Tokens -> 0 .. Lifetime]
<1>1. Unused \in Tokens
  BY SomeUnused
<1>2. Lifetime \in Nat
  BY TokenRefreshAssumption
<1> HIDE DEF Unused, InUse
<1> QED BY <1>1, <1>2 DEF Issues, TypeOK

LEMMA EndpointType ==
    ASSUME TypeOK, Asking, Endpoint
    PROVE  TypeOK'
<1>1. PICK task \in Tasks : TokenIssued(task) \/ TokenRefused(task) \/ TokenUnreachable(task)
  BY DEF Endpoint
<1>2. UNCHANGED <<store, loopVars, sessionVars, request, worldVars>> /\ Awaits(task)
  BY <1>1 DEF TokenIssued, TokenRefused, TokenUnreachable, Answers
<1>3. answer' \in [Tasks -> Tokens \union {"Refused", "Unreachable", None}]
  <2>1. PICK reply \in Tokens \union {"Refused", "Unreachable"} : Answers(task, reply)
    BY <1>1, <1>2, SomeUnused DEF TokenIssued, TokenRefused, TokenUnreachable
  <2> QED BY <2>1 DEF Answers, TypeOK
<1>4. /\ live' \subseteq Tokens /\ accepted' \subseteq Tokens
      /\ left' \in [Tokens -> 0 .. Lifetime]
  <2>1. Issues(task) \/ UNCHANGED discordVars
    BY <1>1 DEF TokenIssued, TokenRefused, TokenUnreachable
  <2> QED BY <1>2, <2>1, IssuesType DEF TypeOK, discordVars
<1> QED BY <1>2, <1>3, <1>4 DEF TypeOK, loopVars, sessionVars, worldVars

LEMMA ScheduleType ==
    ASSUME TypeOK, NEW loaded \in Tokens \union {None, "Error"}, Schedule(loaded)
    PROVE  loop' \in LoopStates /\ timer' \in 0 .. Lifetime \union {None}
<1>1. Lifetime \in Nat /\ Margin \in 1 .. Lifetime - 1
  BY TokenRefreshAssumption
<1>2. loaded \in Tokens => Delay(loaded) \in 0 .. Lifetime
  BY <1>1 DEF Delay, TypeOK
<1> QED BY <1>2 DEF Schedule, LoopStates

LEMMA LoadedType ==
    ASSUME NEW value \in Tokens \union {None}
    PROVE  Loaded(value) \subseteq {value, "Error"}
BY DEF Loaded

LEMMA RefreshLoopType ==
    ASSUME TypeOK, RefreshLoop
    PROVE  TypeOK'
<1>1. UNCHANGED <<discordVars, sessionVars, worldVars>>
  BY DEF RefreshLoop, LoopStarts, TimerFires, RefreshEnds, LoopRetries
<1>2. store' \in Tokens \union {None}
  BY DEF RefreshLoop, LoopStarts, TimerFires, RefreshEnds, LoopRetries, Store, TypeOK
<1>3. loop' \in LoopStates /\ timer' \in 0 .. Lifetime \union {None}
  <2>1. \/ \E loaded \in Tokens \union {None, "Error"} : Schedule(loaded)
        \/ RetriesLater \/ (loop' = "Refreshing" /\ timer' = None)
    BY <1>2, LoadedType
    DEF RefreshLoop, LoopStarts, TimerFires, RefreshEnds, LoopRetries, TypeOK
  <2> QED BY <2>1, ScheduleType DEF RetriesLater, LoopStates
<1>4. /\ request' \in [Tasks -> Tokens \union {"Code", None}]
      /\ answer' \in [Tasks -> Tokens \union {"Refused", "Unreachable", None}]
  <2>1. \/ \E what \in Tokens : Asks("Loop", what)
        \/ Done("Loop") \/ UNCHANGED httpVars
    BY DEF RefreshLoop, LoopStarts, TimerFires, RefreshEnds, LoopRetries
  <2> QED BY <2>1 DEF Asks, Done, httpVars, TypeOK
<1> QED BY <1>1, <1>2, <1>3, <1>4 DEF TypeOK, discordVars, sessionVars, worldVars

LEMMA SessionType ==
    ASSUME TypeOK, Session
    PROVE  TypeOK'
<1>1. UNCHANGED <<discordVars, loopVars, worldVars>>
  BY DEF Session, SessionConnects, AuthenticateSucceeds, AuthenticateFails, SessionRefreshEnds,
     AuthorizationGiven, AuthorizationEnds, SessionEnds
<1>2. store' \in Tokens \union {None}
  BY DEF Session, SessionConnects, AuthenticateSucceeds, AuthenticateFails, SessionRefreshEnds,
     AuthorizationGiven, AuthorizationEnds, SessionEnds, Store, TypeOK
<1>3. session' \in SessionStates /\ purpose' \in Purposes \union {None}
      /\ held' \in Tokens \union {None}
  BY DEF Session, SessionConnects, AuthenticateSucceeds, AuthenticateFails, SessionRefreshEnds,
     AuthorizationGiven, AuthorizationEnds, SessionEnds, Goes, Runs, TypeOK, SessionStates,
     Purposes
<1>4. /\ request' \in [Tasks -> Tokens \union {"Code", None}]
      /\ answer' \in [Tasks -> Tokens \union {"Refused", "Unreachable", None}]
  <2>1. \/ \E what \in Tokens \union {"Code", None} : Asks("Session", what)
        \/ Done("Session") \/ UNCHANGED httpVars
    BY DEF Session, SessionConnects, AuthenticateSucceeds, AuthenticateFails, SessionRefreshEnds,
       AuthorizationGiven, AuthorizationEnds, SessionEnds, TypeOK
  <2> QED BY <2>1 DEF Asks, Done, httpVars, TypeOK
<1> QED BY <1>1, <1>2, <1>3, <1>4 DEF TypeOK, discordVars, loopVars, worldVars

LEMMA OthersType ==
    ASSUME TypeOK, AccessRevoked \/ Restart \/ Tick
    PROVE  TypeOK'
<1>1. Lifetime \in Nat /\ world \in World
  BY TokenRefreshAssumption DEF TypeOK
<1>2. CASE AccessRevoked
  BY <1>2 DEF AccessRevoked, TypeOK, loopVars, sessionVars, httpVars, worldVars
<1>3. CASE Restart
  BY <1>1, <1>3
  DEF Restart, Goes, TypeOK, World, discordVars, LoopStates, SessionStates, Purposes
<1>4. CASE Tick
  <2>1. left' \in [Tokens -> 0 .. Lifetime]
    BY <1>1, <1>4 DEF Tick, TypeOK
  <2>2. timer' \in 0 .. Lifetime \union {None}
    BY <1>1, <1>4 DEF Tick, TypeOK
  <2> QED BY <1>4, <2>1, <2>2 DEF Tick, TypeOK, sessionVars, httpVars, worldVars
<1> QED BY <1>2, <1>3, <1>4

LEMMA NextType ==
    ASSUME TypeOK, Asking, [Next]_vars
    PROVE  TypeOK'
<1>1. CASE UNCHANGED vars
  BY <1>1 DEF vars, TypeOK, discordVars, loopVars, sessionVars, httpVars, worldVars
<1> QED BY <1>1, EndpointType, RefreshLoopType, SessionType, OthersType DEF Next

LEMMA NextAsking ==
    ASSUME TypeOK, Asking, [Next]_vars
    PROVE  Asking'
<1>1. CASE Endpoint \/ AccessRevoked \/ Tick \/ UNCHANGED vars
  BY <1>1 DEF Endpoint, TokenIssued, TokenRefused, TokenUnreachable, Answers, AccessRevoked, Tick,
     vars, sessionVars, httpVars, Asking
<1>2. CASE RefreshLoop
  <2>1. UNCHANGED <<session, held>>
    BY <1>2 DEF RefreshLoop, LoopStarts, TimerFires, RefreshEnds, LoopRetries, sessionVars
  <2>2. request'["Session"] = request["Session"]
    BY <1>2 DEF RefreshLoop, LoopStarts, TimerFires, RefreshEnds, LoopRetries, httpVars, Asks,
       Done, TypeOK
  <2> QED BY <2>1, <2>2 DEF Asking
<1>3. CASE Session
  <2>1. /\ request'["Session"] # None => session' \in {"Refreshing", "Authorizing"}
        /\ request'["Session"] \in {held', "Code", None}
    BY <1>3 DEF Session, SessionConnects, AuthenticateSucceeds, AuthenticateFails,
       SessionRefreshEnds, AuthorizationGiven, AuthorizationEnds, SessionEnds, Goes, Runs, Asks,
       Done, httpVars, Asking, TypeOK
  <2> QED BY <2>1 DEF Asking
<1>4. CASE Restart
  BY <1>4 DEF Restart, Asking
<1> QED BY <1>1, <1>2, <1>3, <1>4 DEF Next

\* Every variable of the two tasks keeps its type.
THEOREM TypeCorrect == Spec => []TypeOK
<1>1. Init => TypeOK /\ Asking
  BY InitType DEF Init, Asking
<1>2. TypeOK /\ Asking /\ [Next]_vars => (TypeOK /\ Asking)'
  BY NextType, NextAsking
<1> QED BY <1>1, <1>2, PTL DEF Spec

-----------------------------------------------------------------------------
(* Who holds what was issued.                                                *)

LEMMA InitHeld == Init => NobodyElses /\ NewLive
<1> SUFFICES ASSUME Init PROVE NobodyElses /\ NewLive
  OBVIOUS
<1>1. /\ \A task \in Tasks : answer[task] \notin Tokens
      /\ ~InHand
  BY Words DEF Init, InHand
<1> QED BY <1>1 DEF NobodyElses, NewLive

LEMMA EndpointHeld ==
    ASSUME TokenInv, Endpoint
    PROVE  (NobodyElses /\ NewLive)'
<1>1. PICK task \in Tasks : TokenIssued(task) \/ TokenRefused(task) \/ TokenUnreachable(task)
  BY DEF Endpoint
<1>2. /\ UNCHANGED <<store, loopVars, sessionVars, request, worldVars>>
      /\ Awaits(task) /\ (InHand' <=> InHand) /\ UNCHANGED <<held, world>>
  BY <1>1 DEF TokenIssued, TokenRefused, TokenUnreachable, Answers, sessionVars, worldVars,
     InHand, Saves
<1>3. /\ Unused \in Tokens /\ Unused \notin InUse
      /\ answer \in [Tasks -> Tokens \union {"Refused", "Unreachable", None}]
  BY <1>2, SomeUnused DEF TokenInv, TypeOK
<1>4. CASE Issues(task) /\ Answers(task, Unused)
  <2> HIDE DEF Unused
  <2>1. answer' = [answer EXCEPT ![task] = Unused]
    BY <1>4 DEF Answers
  <2>2. NobodyElses'
    BY <1>2, <1>3, <2>1 DEF TokenInv, NobodyElses, InUse
  <2>3. NewLive'
    <3>1. live' = {Unused} \union ((live \intersect InUse) \ {request[task]})
      BY <1>4 DEF Issues
    <3> QED BY <1>2, <1>3, <2>1, <3>1 DEF TokenInv, NobodyElses, NewLive, InUse
  <2> QED BY <2>2, <2>3
<1>5. CASE /\ Issues(task) \/ UNCHANGED discordVars
           /\ Answers(task, "Refused") \/ Answers(task, "Unreachable")
  <2>1. \A a \in Tasks : answer'[a] \in Tokens => a # task /\ answer'[a] = answer[a]
    BY <1>3, <1>5, Words DEF Answers
  <2>2. NobodyElses'
    BY <1>2, <2>1, Words DEF TokenInv, NobodyElses, Awaits
  <2>3. NewLive'
    <3>1. \/ live' = live
          \/ live' = {Unused} \union ((live \intersect InUse) \ {request[task]})
      BY <1>5 DEF Issues, discordVars
    <3> HIDE DEF Unused
    <3> QED BY <1>2, <1>3, <2>1, <3>1 DEF TokenInv, NobodyElses, NewLive, InUse
  <2> QED BY <2>2, <2>3
<1> QED BY <1>1, <1>4, <1>5 DEF TokenIssued, TokenRefused, TokenUnreachable

LEMMA RefreshLoopHeld ==
    ASSUME TokenInv, RefreshLoop
    PROVE  (NobodyElses /\ NewLive)'
<1>1. UNCHANGED <<live, session, purpose, held, world>> /\ (InHand' <=> InHand)
  BY DEF RefreshLoop, LoopStarts, TimerFires, RefreshEnds, LoopRetries, discordVars, sessionVars,
     worldVars, InHand, Saves
<1>2. CASE UNCHANGED <<store, httpVars>>
  BY <1>1, <1>2 DEF TokenInv, NobodyElses, NewLive, httpVars
<1>3. CASE TimerFires /\ ~UNCHANGED httpVars
  <2>1. request' = [request EXCEPT !["Loop"] = store] /\ UNCHANGED <<store, answer>>
    BY <1>3, Words DEF TimerFires, Loaded, Asks
  <2> QED BY <1>1, <2>1 DEF TokenInv, TypeOK, NobodyElses, NewLive
<1>4. CASE RefreshEnds
  <2>1. /\ request' = [request EXCEPT !["Loop"] = None]
        /\ answer' = [answer EXCEPT !["Loop"] = None]
        /\ store' \in {store, None} \/ (answer["Loop"] \in Tokens /\ store' = answer["Loop"])
    BY <1>4 DEF RefreshEnds, Done, Store
  <2> QED BY <1>1, <2>1, Words DEF TokenInv, TypeOK, NobodyElses, NewLive
<1> QED BY <1>2, <1>3, <1>4 DEF RefreshLoop, LoopStarts, TimerFires, LoopRetries

LEMMA SessionHeld ==
    ASSUME TokenInv, Session
    PROVE  (NobodyElses /\ NewLive)'
<1>1. UNCHANGED <<live, world>>
  BY DEF Session, SessionConnects, AuthenticateSucceeds, AuthenticateFails, SessionRefreshEnds,
     AuthorizationGiven, AuthorizationEnds, SessionEnds, discordVars, worldVars
<1>2. CASE SessionConnects
  <2>1. /\ UNCHANGED <<store, answer>> /\ ~InHand' /\ held' \in {store, None}
        /\ request' = request \/ request' = [request EXCEPT !["Session"] = store]
    BY <1>2, Words DEF SessionConnects, Goes, Runs, Asks, httpVars, InHand, Saves, Loaded
  <2> QED BY <1>1, <2>1, Words DEF TokenInv, TypeOK, NobodyElses, NewLive
<1>3. CASE AuthenticateSucceeds
  <2>1. UNCHANGED httpVars /\ ~InHand' /\ held' = None /\ store' \in {store, held}
    BY <1>3 DEF AuthenticateSucceeds, Runs, Goes, Store, InHand, Saves
  <2> QED BY <1>1, <2>1, Words DEF TokenInv, NobodyElses, NewLive, httpVars
<1>4. CASE AuthenticateFails
  <2>1. /\ UNCHANGED <<store, answer>> /\ ~InHand' /\ held' \in {held, None}
        /\ request' = request \/ request' = [request EXCEPT !["Session"] = held]
    BY <1>4 DEF AuthenticateFails, Goes, Runs, Asks, httpVars, InHand, Saves
  <2> QED BY <1>1, <2>1, Words DEF TokenInv, TypeOK, NobodyElses, NewLive
<1>5. CASE SessionRefreshEnds \/ AuthorizationEnds
  <2>1. /\ request' = [request EXCEPT !["Session"] = None]
        /\ answer' = [answer EXCEPT !["Session"] = None]
        /\ store' \in {store, None}
        /\ (held' \in {held, None} /\ ~InHand') \/ held' = answer["Session"]
    BY <1>5 DEF SessionRefreshEnds, AuthorizationEnds, Done, Store, Goes, Runs, InHand, Saves
  <2> QED BY <1>1, <2>1, Words DEF TokenInv, TypeOK, NobodyElses, NewLive
<1>6. CASE AuthorizationGiven
  <2>1. /\ UNCHANGED <<store, answer>> /\ ~InHand' /\ held' = None
        /\ request' = [request EXCEPT !["Session"] = "Code"]
    BY <1>6 DEF AuthorizationGiven, Goes, Asks, InHand, Saves
  <2> QED BY <1>1, <2>1, Words DEF TokenInv, TypeOK, NobodyElses, NewLive
<1>7. CASE SessionEnds
  <2>1. UNCHANGED <<store, httpVars>> /\ ~InHand' /\ held' = None
    BY <1>7 DEF SessionEnds, Goes, InHand, Saves
  <2> QED BY <1>1, <2>1, Words DEF TokenInv, NobodyElses, NewLive, httpVars
<1> QED BY <1>2, <1>3, <1>4, <1>5, <1>6, <1>7 DEF Session

LEMMA OthersHeld ==
    ASSUME TokenInv, AccessRevoked \/ Restart \/ Tick \/ UNCHANGED vars
    PROVE  (NobodyElses /\ NewLive)'
<1>1. CASE AccessRevoked
  <2>1. UNCHANGED <<store, session, purpose, held, httpVars, world>> /\ "Revocation" \in world.faults
    BY <1>1 DEF AccessRevoked, sessionVars, worldVars
  <2> QED BY <2>1 DEF TokenInv, NobodyElses, NewLive, InHand, Saves, httpVars
<1>2. CASE Restart
  <2>1. (\A task \in Tasks : answer'[task] \notin Tokens) /\ ~InHand'
    BY <1>2, Words DEF Restart, Goes, InHand
  <2> QED BY <2>1 DEF NobodyElses, NewLive
<1>3. CASE Tick \/ UNCHANGED vars
  <2>1. UNCHANGED <<store, live, session, purpose, held, httpVars, world>>
    BY <1>3 DEF Tick, vars, discordVars, sessionVars, worldVars
  <2> QED BY <2>1 DEF TokenInv, NobodyElses, NewLive, InHand, Saves, httpVars
<1> QED BY <1>1, <1>2, <1>3

LEMMA NextTokenInv == TokenInv /\ [Next]_vars => TokenInv'
<1> SUFFICES ASSUME TokenInv, [Next]_vars PROVE TokenInv'
  OBVIOUS
<1>1. TypeOK' /\ Asking'
  BY NextType, NextAsking DEF TokenInv
<1>2. (NobodyElses /\ NewLive)'
  BY EndpointHeld, RefreshLoopHeld, SessionHeld, OthersHeld DEF Next
<1> QED BY <1>1, <1>2 DEF TokenInv

\* A token set is saved in two places, and each saves one that was issued to it.
LEMMA SavedLive ==
    ASSUME TokenInv, [Next]_vars, store' # store, store' # None,
           "Revocation" \notin world.faults
    PROVE  store' \in live
<1>1. \/ RefreshEnds /\ answer["Loop"] \in Tokens /\ store' = answer["Loop"]
      \/ AuthenticateSucceeds /\ Saves /\ store' = held /\ held \in Tokens
  BY DEF Next, vars, Endpoint, TokenIssued, TokenRefused, TokenUnreachable, Answers,
     AccessRevoked, RefreshLoop, LoopStarts, TimerFires, RefreshEnds, LoopRetries, Session,
     SessionConnects, AuthenticateSucceeds, AuthenticateFails, SessionRefreshEnds,
     AuthorizationGiven, AuthorizationEnds, SessionEnds, Restart, Tick, Store, TokenInv, TypeOK
<1> QED BY <1>1 DEF TokenInv, NewLive, InHand, AuthenticateSucceeds

\* No interleaving of the two tasks, slow answers, lost answers, failures of the store
\* and restarts makes one save a token set whose refresh token was used up.
THEOREM SavedStayLive == Spec => SavedTokensLive
<1>1. Init => TokenInv
  BY InitType, InitHeld DEF TokenInv, Init, Asking
<1>2. TokenInv /\ [Next]_vars
         => [store' # store /\ store' # None /\ "Revocation" \notin world.faults
                => store' \in live]_vars
  BY SavedLive
<1> QED BY <1>1, <1>2, NextTokenInv, PTL DEF Spec, SavedTokensLive

-----------------------------------------------------------------------------
(* While nothing fails, the loop renews what is stored in time.              *)

\* What the endpoint has just issued is accepted and lasts.
AnswersLast ==
    \A task \in Tasks : answer[task] \in Tokens =>
       answer[task] \in accepted /\ left[answer[task]] = Lifetime

\* A session that need not refresh: it authenticates with what lasts.
SessionAtEase ==
    /\ session # "Refreshing"
    /\ session = "Authenticating" =>
          /\ held \in accepted /\ left[held] > 0 /\ purpose \in {"Restored", "Authorized"}
          /\ purpose = "Authorized" => left[held] = Lifetime
    /\ IF session = "Authorizing"
       THEN request["Session"] = "Code" /\ answer["Session"] \in Tokens \union {None}
       ELSE request["Session"] = None /\ answer["Session"] = None

\* The loop waits for the margin of what is stored, and refreshes nothing else.
LoopInTime ==
    \/ loop = "Starting" /\ left[store] > Margin
    \/ loop = "Waiting" /\ timer \in Nat /\ timer + Margin <= left[store]
    \/ /\ loop = "Refreshing" /\ left[store] >= Margin
       /\ \/ answer["Loop"] \in Tokens
          \/ answer["Loop"] = None /\ request["Loop"] \in live

LoopAsksNothing == request["Loop"] = None /\ answer["Loop"] = None

\* The loop is armed, and the session leaves the refreshing to it.
Armed ==
    /\ AnswersLast /\ SessionAtEase
    /\ store \in Tokens /\ store \in accepted
    /\ store \in live \/ (loop = "Refreshing" /\ answer["Loop"] # None)
    /\ LoopInTime /\ (loop # "Refreshing" => LoopAsksNothing)

\* Nothing has been stored yet, and the loop has not looked.
NotSignedIn ==
    /\ AnswersLast /\ SessionAtEase
    /\ session = "Authenticating" => purpose = "Authorized"
    /\ store = None /\ loop = "Starting" /\ LoopAsksNothing

\* The loop looked while nothing was stored, and sleeps; the session refreshes alone.
SessionAlone ==
    /\ AnswersLast
    /\ Disarmed /\ LoopAsksNothing
    /\ session = "Refreshing" =>
          /\ held = store /\ store \in Tokens /\ request["Session"] = store
          /\ answer["Session"] \in Tokens \union {None}
    /\ session = "Authenticating" =>
          /\ purpose \in {"Restored", "Refreshed", "Authorized"} /\ held \in Tokens
          /\ purpose = "Restored" => held = store
          /\ purpose = "Refreshed" => held \in accepted /\ left[held] > 0
    /\ session = "Authorizing" =>
          request["Session"] = "Code" /\ answer["Session"] \in Tokens \union {None}
    /\ session \notin {"Refreshing", "Authorizing"} =>
          request["Session"] = None /\ answer["Session"] = None
    /\ store # None =>
          \/ store \in live
          \/ session = "Refreshing" /\ answer["Session"] # None
          \/ session = "Authenticating" /\ purpose = "Refreshed"

\* Nothing fails and nobody restarts: the endpoint issues what it is asked for, as long
\* as it is asked with what is live, and the store works.
LEMMA CalmWorld ==
    ASSUME TypeOK, Calm
    PROVE  /\ world.prompt /\ world.faults = {} /\ restarts_left = 0 /\ ~Restart /\ ~AccessRevoked
           /\ \A task \in Tasks : ~TokenUnreachable(task)
           /\ \A value : Loaded(value) = {value}
           /\ \A value : Store(value) => store' = value
<1>1. world.faults = {} /\ world.restarts = 0 /\ world.prompt
  BY DEF Calm
<1>2. restarts_left = 0
  BY <1>1 DEF TypeOK
<1> QED BY <1>1, <1>2 DEF Restart, AccessRevoked, TokenUnreachable, Loaded, Store

\* A token set that is issued is accepted and lasts, and whatever somebody holds stays
\* as it was, but for the refresh token that was used.
LEMMA IssueEffect ==
    ASSUME TypeOK, Asking, NEW task \in Tasks, TokenIssued(task)
    PROVE  \E new \in Tokens :
              /\ new \notin InUse /\ answer' = [answer EXCEPT ![task] = new]
              /\ store' = store /\ loop' = loop /\ timer' = timer /\ session' = session
              /\ purpose' = purpose /\ held' = held /\ request' = request /\ world' = world
              /\ new \in accepted' /\ left'[new] = Lifetime
              /\ \A t \in Tokens \intersect InUse :
                    /\ left'[t] = left[t] /\ (t \in accepted => t \in accepted')
                    /\ t \in live /\ t # request[task] => t \in live'
<1>1. Unused \in Tokens /\ Unused \notin InUse
  BY SomeUnused DEF TokenIssued
<1> HIDE DEF Unused, InUse
<1>2. /\ answer' = [answer EXCEPT ![task] = Unused]
      /\ store' = store /\ loop' = loop /\ timer' = timer /\ session' = session
      /\ purpose' = purpose /\ held' = held /\ request' = request /\ world' = world
  BY DEF TokenIssued, Answers, loopVars, sessionVars, worldVars
<1>3. /\ live' = {Unused} \union ((live \intersect InUse) \ {request[task]})
      /\ accepted' = {Unused} \union (accepted \intersect InUse)
      /\ left' = [t \in Tokens |-> IF t = Unused THEN Lifetime
                                   ELSE IF t \in InUse THEN left[t] ELSE 0]
  BY DEF TokenIssued, Issues
<1>4. Unused \in accepted' /\ left'[Unused] = Lifetime
  BY <1>1, <1>3
<1>5. ASSUME NEW t \in Tokens \intersect InUse
      PROVE  /\ left'[t] = left[t] /\ (t \in accepted => t \in accepted')
             /\ t \in live /\ t # request[task] => t \in live'
  BY <1>1, <1>3
<1> QED BY <1>1, <1>2, <1>4, <1>5

\* What a task's variables hold is in use.
LEMMA Held ==
    /\ store \in InUse /\ held \in InUse
    /\ \A task \in Tasks : request[task] \in InUse /\ answer[task] \in InUse
BY DEF InUse

\* The endpoint keeps a session at ease.
LEMMA EaseIssued ==
    ASSUME TypeOK, Asking, AnswersLast, NEW task \in Tasks, TokenIssued(task)
    PROVE  AnswersLast' /\ (SessionAtEase => SessionAtEase')
<1>1. PICK new \in Tokens :
         /\ new \notin InUse /\ answer' = [answer EXCEPT ![task] = new]
         /\ store' = store /\ loop' = loop /\ timer' = timer /\ session' = session
         /\ purpose' = purpose /\ held' = held /\ request' = request /\ world' = world
         /\ new \in accepted' /\ left'[new] = Lifetime
         /\ \A t \in Tokens \intersect InUse :
               /\ left'[t] = left[t] /\ (t \in accepted => t \in accepted')
               /\ t \in live /\ t # request[task] => t \in live'
  BY IssueEffect
<1>2. answer'[task] = new /\ \A a \in Tasks \ {task} : answer'[a] = answer[a]
  BY <1>1 DEF TypeOK
<1>3. AnswersLast'
  <2> SUFFICES ASSUME NEW a \in Tasks, answer'[a] \in Tokens
               PROVE  answer'[a] \in accepted' /\ left'[answer'[a]] = Lifetime
    BY DEF AnswersLast
  <2>1. CASE a = task
    BY <2>1, <1>1, <1>2
  <2>2. CASE a # task
    BY <2>2, <1>1, <1>2, Held DEF AnswersLast
  <2> QED BY <2>1, <2>2
<1>4. ASSUME SessionAtEase PROVE SessionAtEase'
  <2>1. ASSUME session = "Authenticating"
        PROVE  /\ held \in accepted' /\ left'[held] > 0
               /\ purpose = "Authorized" => left'[held] = Lifetime
    BY <1>1, <1>4, <2>1, Held DEF SessionAtEase, TypeOK
  <2>2. CASE task = "Session"
    <3>1. session = "Authorizing"
      BY <1>4, <2>2, Words DEF SessionAtEase, TokenIssued, Awaits
    <3> QED BY <1>1, <1>2, <1>4, <2>2, <3>1 DEF SessionAtEase
  <2>3. CASE task # "Session"
    BY <1>1, <1>2, <1>4, <2>1, <2>3 DEF SessionAtEase
  <2> QED BY <2>2, <2>3
<1> QED BY <1>3, <1>4

\* The session at ease never refreshes; all it saves is what it was authorized.
LEMMA EaseSession ==
    ASSUME TokenInv, Calm, AnswersLast, SessionAtEase, Session,
           store # None => store \in accepted /\ left[store] > 0
    PROVE  /\ AnswersLast' /\ SessionAtEase'
           /\ request'["Loop"] = request["Loop"] /\ answer'["Loop"] = answer["Loop"]
           /\ \/ store' = store
              \/ /\ store' = held /\ held \in Tokens /\ held \in accepted
                 /\ left[held] = Lifetime /\ held # request["Loop"] /\ held \in live
<1>0. /\ TypeOK /\ UNCHANGED <<discordVars, loopVars, worldVars>>
      /\ "Loop" \in Tasks /\ "Session" \in Tasks
  BY DEF TokenInv, Session, SessionConnects, AuthenticateSucceeds, AuthenticateFails,
     SessionRefreshEnds, AuthorizationGiven, AuthorizationEnds, SessionEnds
<1>1. /\ request'["Loop"] = request["Loop"] /\ answer'["Loop"] = answer["Loop"]
      /\ answer'["Session"] \in {answer["Session"], None}
  BY <1>0 DEF Session, SessionConnects, AuthenticateSucceeds, AuthenticateFails,
     SessionRefreshEnds, AuthorizationGiven, AuthorizationEnds, SessionEnds, Asks, Done, httpVars,
     TypeOK
<1>2. AnswersLast'
  BY <1>0, <1>1, Words DEF AnswersLast, discordVars
<1>3. CASE SessionConnects
  <2>1. store' = store /\ answer' = answer /\ request' = request
        /\ \/ Goes("Authenticating", "Restored", store) /\ store # None
           \/ Runs
    BY <1>0, <1>3, CalmWorld, Words DEF SessionConnects, Fresh, httpVars, TypeOK
  <2>2. session = "Down"
    BY <1>3 DEF SessionConnects
  <2> QED BY <1>0, <1>1, <1>2, <2>1, <2>2 DEF SessionAtEase, Goes, Runs, discordVars
<1>4. CASE AuthenticateSucceeds
  <2>1. /\ Runs /\ request' = request /\ answer' = answer
        /\ store' = store \/ (Saves /\ store' = held)
        /\ session = "Authenticating" /\ held \in accepted
    BY <1>0, <1>4, CalmWorld DEF AuthenticateSucceeds, httpVars
  <2>2. SessionAtEase'
    BY <2>1 DEF SessionAtEase, Runs, Goes
  <2>3. ASSUME Saves
        PROVE  /\ held \in Tokens /\ left[held] = Lifetime
               /\ held # request["Loop"] /\ held \in live
    <3>1. held \in Tokens /\ purpose = "Authorized"
      BY <1>0, <2>1, <2>3 DEF SessionAtEase, Saves, TypeOK
    <3>2. left[held] = Lifetime
      BY <2>1, <3>1 DEF SessionAtEase
    <3>3. held # request["Loop"]
      BY <1>0, <2>1, <2>3, <3>1 DEF TokenInv, NobodyElses, InHand
    <3>4. held \in live
      BY <2>1, <2>3, <3>1, CalmWorld, <1>0 DEF TokenInv, NewLive, InHand
    <3> QED BY <3>1, <3>2, <3>3, <3>4
  <2> QED BY <1>1, <1>2, <2>1, <2>2, <2>3
<1>5. CASE AuthenticateFails
  BY <1>5, CalmWorld, <1>0 DEF AuthenticateFails, SessionAtEase
<1>6. CASE SessionRefreshEnds
  BY <1>6 DEF SessionRefreshEnds, SessionAtEase
<1>7. CASE AuthorizationGiven
  <2>1. /\ store' = store /\ answer' = answer /\ session' = "Authorizing"
        /\ request' = [request EXCEPT !["Session"] = "Code"]
    BY <1>7 DEF AuthorizationGiven, Goes, Asks
  <2>2. answer["Session"] = None /\ request'["Session"] = "Code"
    BY <1>0, <1>7, <2>1 DEF AuthorizationGiven, SessionAtEase, TypeOK
  <2> QED BY <1>1, <1>2, <2>1, <2>2 DEF SessionAtEase
<1>8. CASE AuthorizationEnds
  <2>1. /\ store' = store /\ session = "Authorizing" /\ answer["Session"] \in Tokens
        /\ Goes("Authenticating", "Authorized", answer["Session"]) /\ Done("Session")
    BY <1>8 DEF AuthorizationEnds, SessionAtEase
  <2>2. request'["Session"] = None /\ answer'["Session"] = None
    BY <1>0, <2>1 DEF Done, TypeOK
  <2>3. answer["Session"] \in accepted /\ left[answer["Session"]] = Lifetime /\ Lifetime > 0
    BY <1>0, <2>1, TokenRefreshAssumption DEF AnswersLast
  <2> QED BY <1>0, <1>1, <1>2, <2>1, <2>2, <2>3 DEF SessionAtEase, Goes, discordVars
<1>9. CASE SessionEnds
  BY <1>1, <1>2, <1>9 DEF SessionEnds, Goes, SessionAtEase, httpVars
<1> QED BY <1>3, <1>4, <1>5, <1>6, <1>7, <1>8, <1>9 DEF Session

\* The loop, armed, asks only for what is stored.
LEMMA ArmedIssued ==
    ASSUME TokenInv, Armed, NEW task \in Tasks, TokenIssued(task)
    PROVE  Armed'
<1>0. TypeOK /\ Asking
  BY DEF TokenInv
<1>1. PICK new \in Tokens :
         /\ new \notin InUse /\ answer' = [answer EXCEPT ![task] = new]
         /\ store' = store /\ loop' = loop /\ timer' = timer /\ session' = session
         /\ purpose' = purpose /\ held' = held /\ request' = request /\ world' = world
         /\ new \in accepted' /\ left'[new] = Lifetime
         /\ \A t \in Tokens \intersect InUse :
               /\ left'[t] = left[t] /\ (t \in accepted => t \in accepted')
               /\ t \in live /\ t # request[task] => t \in live'
  BY <1>0, IssueEffect
<1>2. answer'[task] = new /\ \A a \in Tasks \ {task} : answer'[a] = answer[a]
  BY <1>0, <1>1 DEF TypeOK
<1>3. AnswersLast' /\ SessionAtEase'
  BY <1>0, EaseIssued DEF Armed
<1>4. store' \in Tokens /\ store' \in accepted' /\ left'[store] = left[store]
  BY <1>1, Held DEF Armed
<1>5. CASE task = "Loop"
  <2>1. request["Loop"] # None
    BY <1>5 DEF TokenIssued, Awaits
  <2>2. loop = "Refreshing" /\ answer'["Loop"] \in Tokens
    BY <1>2, <1>5, <2>1 DEF Armed, LoopAsksNothing
  <2>3. LoopInTime'
    BY <1>1, <1>4, <2>2 DEF Armed, LoopInTime
  <2> QED BY <1>1, <1>3, <1>4, <2>2, <2>3, Words DEF Armed
<1>6. CASE task = "Session"
  <2>1. request["Session"] = "Code" /\ answer'["Loop"] = answer["Loop"] /\ "Loop" \in Tasks
    BY <1>2, <1>6, Words DEF Armed, SessionAtEase, TokenIssued, Awaits
  <2>2. \A t \in Tokens \intersect InUse : t \in live => t \in live'
    BY <1>1, <1>6, <2>1, Words
  <2>3. live \subseteq Tokens
    BY <1>0 DEF TypeOK
  <2>4. LoopInTime'
    BY <1>1, <1>4, <2>1, <2>2, <2>3, Held DEF Armed, LoopInTime
  <2>5. store' \in live' \/ (loop' = "Refreshing" /\ answer'["Loop"] # None)
    BY <1>1, <2>1, <2>2, Held DEF Armed
  <2> QED BY <1>1, <1>3, <1>4, <2>1, <2>4, <2>5 DEF Armed, LoopAsksNothing
<1> QED BY <1>5, <1>6

\* Nothing that it asks is refused.
LEMMA ArmedEndpoint ==
    ASSUME TokenInv, Calm, Armed, Endpoint
    PROVE  Armed'
<1>0. TypeOK
  BY DEF TokenInv
<1>1. PICK task \in Tasks : TokenIssued(task) \/ TokenRefused(task)
  BY <1>0, CalmWorld DEF Endpoint
<1>2. ASSUME TokenRefused(task) PROVE FALSE
  <2>1. request[task] # None /\ answer[task] = None /\ request[task] \notin live \union {"Code"}
    BY <1>2 DEF TokenRefused, Awaits
  <2>2. CASE task = "Loop"
    BY <2>1, <2>2, Words DEF Armed, LoopInTime, LoopAsksNothing
  <2>3. CASE task = "Session"
    BY <2>1, <2>3 DEF Armed, SessionAtEase
  <2> QED BY <2>2, <2>3
<1> QED BY <1>1, <1>2, ArmedIssued

\* The loop itself: it arms the timer before the margin, and asks when it has begun.
LEMMA ArmedLoop ==
    ASSUME TokenInv, Calm, Armed, RefreshLoop
    PROVE  Armed'
<1>0. /\ TypeOK /\ UNCHANGED <<discordVars, sessionVars, worldVars>>
      /\ "Loop" \in Tasks /\ "Session" \in Tasks
  BY DEF TokenInv, RefreshLoop, LoopStarts, TimerFires, RefreshEnds, LoopRetries
<1>a. Lifetime \in Nat /\ Margin \in 1 .. Lifetime - 1
  BY TokenRefreshAssumption
<1>b. /\ store \in Tokens /\ store \in accepted /\ left[store] \in Nat
      /\ AnswersLast /\ SessionAtEase /\ LoopInTime
  BY <1>0 DEF Armed, TypeOK
<1>1. ASSUME NEW token \in Tokens, Schedule(token), left[token] > Margin
      PROVE  loop' = "Waiting" /\ timer' \in Nat /\ timer' + Margin <= left[token]
  <2>1. left[token] \in Nat
    BY <1>0 DEF TypeOK
  <2> QED BY <1>1, <1>a, <2>1 DEF Schedule, Delay
<1>2. ASSUME request'["Session"] = request["Session"], answer'["Session"] = answer["Session"],
             answer'["Loop"] \in {answer["Loop"], None}
      PROVE  AnswersLast' /\ SessionAtEase'
  <2>1. SessionAtEase'
    BY <1>0, <1>2, <1>b DEF SessionAtEase, discordVars, sessionVars
  <2>2. AnswersLast'
    BY <1>0, <1>2, <1>b, Words DEF AnswersLast, discordVars
  <2> QED BY <2>1, <2>2
<1>3. CASE LoopStarts
  <2>1. /\ loop = "Starting" /\ Schedule(store) /\ store' = store
        /\ request' = request /\ answer' = answer
    BY <1>0, <1>3, CalmWorld DEF LoopStarts, httpVars
  <2>2. left[store] > Margin
    BY <2>1 DEF Armed, LoopInTime
  <2>3. LoopInTime'
    BY <1>0, <1>1, <1>b, <2>1, <2>2 DEF LoopInTime, discordVars
  <2> QED BY <1>0, <1>1, <1>2, <1>b, <2>1, <2>2, <2>3
          DEF Armed, LoopAsksNothing, discordVars
<1>4. CASE TimerFires
  <2>1. /\ loop = "Waiting" /\ timer = 0 /\ loop' = "Refreshing" /\ store' = store
        /\ request' = [request EXCEPT !["Loop"] = store] /\ answer' = answer
    BY <1>0, <1>4, <1>b, CalmWorld, Words DEF TimerFires, Asks
  <2>2. /\ request'["Loop"] = store /\ request'["Session"] = request["Session"]
        /\ answer["Loop"] = None /\ store \in live /\ left[store] >= Margin
    BY <1>0, <1>a, <1>b, <2>1 DEF Armed, LoopInTime, LoopAsksNothing, TypeOK
  <2>3. LoopInTime'
    BY <1>0, <2>1, <2>2 DEF LoopInTime, discordVars
  <2> QED BY <1>0, <1>2, <1>b, <2>1, <2>2, <2>3 DEF Armed, discordVars
<1>5. CASE RefreshEnds
  <2>1. answer["Loop"] \in Tokens /\ loop = "Refreshing"
    BY <1>5, <1>b DEF RefreshEnds, LoopInTime
  <2>2. store' = answer["Loop"] /\ Schedule(store') /\ Done("Loop")
    BY <1>0, <1>5, <2>1, CalmWorld, Words DEF RefreshEnds
  <2>3. /\ request'["Loop"] = None /\ answer'["Loop"] = None
        /\ request'["Session"] = request["Session"] /\ answer'["Session"] = answer["Session"]
    BY <1>0, <2>2 DEF Done, TypeOK
  <2>4. /\ store' \in accepted /\ left[store'] = Lifetime /\ store' \in live
        /\ left[store'] > Margin
    <3>1. store' \in accepted /\ left[store'] = Lifetime
      BY <1>0, <1>b, <2>1, <2>2 DEF AnswersLast
    <3>2. store' \in live
      BY <1>0, <2>1, <2>2, CalmWorld DEF TokenInv, NewLive
    <3> QED BY <1>a, <3>1, <3>2
  <2>5. loop' = "Waiting" /\ timer' \in Nat /\ timer' + Margin <= left'[store']
    BY <1>0, <1>1, <2>1, <2>2, <2>4 DEF discordVars
  <2>6. LoopInTime'
    BY <2>5 DEF LoopInTime
  <2> QED BY <1>0, <1>2, <2>1, <2>2, <2>3, <2>4, <2>5, <2>6 DEF Armed, LoopAsksNothing, discordVars
<1>6. CASE LoopRetries
  BY <1>6, <1>b DEF LoopRetries, LoopInTime
<1> QED BY <1>3, <1>4, <1>5, <1>6 DEF RefreshLoop

\* Whatever the session saves lasts longer than what the loop is waiting for.
LEMMA ArmedSession ==
    ASSUME TokenInv, Calm, Armed, Session
    PROVE  Armed'
<1>0. /\ TypeOK /\ UNCHANGED <<discordVars, loopVars, worldVars>>
  BY DEF TokenInv, Session, SessionConnects, AuthenticateSucceeds, AuthenticateFails,
     SessionRefreshEnds, AuthorizationGiven, AuthorizationEnds, SessionEnds
<1>a. Lifetime \in Nat /\ Margin \in 1 .. Lifetime - 1
  BY TokenRefreshAssumption
<1>1. store \in Tokens /\ store \in accepted /\ left[store] \in 0 .. Lifetime /\ left[store] > 0
  BY <1>0, <1>a DEF Armed, LoopInTime, TypeOK
<1>2. /\ AnswersLast' /\ SessionAtEase'
      /\ request'["Loop"] = request["Loop"] /\ answer'["Loop"] = answer["Loop"]
      /\ \/ store' = store
         \/ /\ store' = held /\ held \in Tokens /\ held \in accepted
            /\ left[held] = Lifetime /\ held # request["Loop"] /\ held \in live
  BY <1>1, EaseSession DEF Armed
<1>3. left'[store'] \in 0 .. Lifetime /\ left'[store'] >= left[store]
  BY <1>0, <1>1, <1>2, <1>a DEF discordVars
<1>4. /\ loop' = loop /\ timer' = timer /\ live' = live /\ accepted' = accepted
  BY <1>0 DEF loopVars, discordVars
<1>5. LoopInTime'
  <2>1. CASE loop = "Starting" /\ left[store] > Margin
    BY <2>1, <1>1, <1>3, <1>4, <1>a DEF LoopInTime
  <2>2. CASE loop = "Waiting" /\ timer \in Nat /\ timer + Margin <= left[store]
    BY <2>2, <1>1, <1>3, <1>4, <1>a DEF LoopInTime
  <2>3. CASE /\ loop = "Refreshing" /\ left[store] >= Margin
             /\ \/ answer["Loop"] \in Tokens
                \/ answer["Loop"] = None /\ request["Loop"] \in live
    BY <2>3, <1>1, <1>2, <1>3, <1>4, <1>a DEF LoopInTime
  <2> QED BY <2>1, <2>2, <2>3 DEF Armed, LoopInTime
<1> QED BY <1>1, <1>2, <1>4, <1>5 DEF Armed, LoopAsksNothing

\* Time passes only while both wait, and takes as much from the timer as from the token.
LEMMA ArmedTick ==
    ASSUME TokenInv, Calm, Armed, Tick
    PROVE  Armed'
<1>0. TypeOK /\ world.prompt
  BY CalmWorld DEF TokenInv
<1>a. Lifetime \in Nat /\ Margin \in 1 .. Lifetime - 1
  BY TokenRefreshAssumption
<1>1. /\ loop = "Waiting" /\ timer # 0 /\ session \in {"Down", "Running"}
      /\ left' = [t \in Tokens |-> IF left[t] = 0 THEN 0 ELSE left[t] - 1]
      /\ timer' = IF timer \in {0, None} THEN timer ELSE timer - 1
      /\ store' = store /\ live' = live /\ accepted' = accepted /\ loop' = loop
      /\ session' = session /\ request' = request /\ answer' = answer
  BY <1>0 DEF Tick, AllWait, sessionVars, httpVars
<1>2. timer \in Nat /\ timer + Margin <= left[store] /\ store \in Tokens /\ left[store] \in Nat
  BY <1>0, <1>1 DEF Armed, LoopInTime, TypeOK
<1>3. timer # None
  BY <1>2, TokenRefreshAssumption
<1>4. LoopInTime'
  BY <1>1, <1>2, <1>3, <1>a DEF LoopInTime
<1>5. AnswersLast' /\ SessionAtEase'
  BY <1>1, Words DEF Armed, AnswersLast, SessionAtEase, LoopAsksNothing
<1> QED BY <1>1, <1>4, <1>5 DEF Armed, LoopAsksNothing

LEMMA ArmedStep ==
    ASSUME TokenInv, Calm, Armed, [Next]_vars
    PROVE  Armed' /\ store' # None
<1>1. CASE UNCHANGED vars
  <2>1. /\ store' = store /\ live' = live /\ accepted' = accepted /\ left' = left
        /\ loop' = loop /\ timer' = timer /\ session' = session /\ purpose' = purpose
        /\ held' = held /\ request' = request /\ answer' = answer
    BY <1>1 DEF vars, discordVars, loopVars, sessionVars, httpVars
  <2>2. AnswersLast' /\ SessionAtEase'
    BY <2>1 DEF Armed, AnswersLast, SessionAtEase
  <2>3. LoopInTime' /\ (LoopAsksNothing => LoopAsksNothing')
    BY <2>1 DEF Armed, LoopInTime, LoopAsksNothing
  <2> QED BY <2>1, <2>2, <2>3, Words DEF Armed
<1>2. TypeOK
  BY DEF TokenInv
<1>3. Armed'
  BY <1>1, <1>2, CalmWorld, ArmedEndpoint, ArmedLoop, ArmedSession, ArmedTick DEF Next
<1> QED BY <1>3, Words DEF Armed

\* What is authorized before the loop has looked arms it.
LEMMA NotSignedInStep ==
    ASSUME TokenInv, Calm, NotSignedIn, [Next]_vars
    PROVE  NotSignedIn' \/ Armed' \/ SessionAlone'
<1>0. TypeOK /\ Asking /\ Lifetime \in Nat /\ Margin \in 1 .. Lifetime - 1
  BY TokenRefreshAssumption DEF TokenInv
<1>1. CASE UNCHANGED vars
  <2>1. /\ store' = store /\ accepted' = accepted /\ left' = left /\ loop' = loop
        /\ session' = session /\ purpose' = purpose
        /\ held' = held /\ request' = request /\ answer' = answer
    BY <1>1 DEF vars, discordVars, loopVars, sessionVars, httpVars
  <2> QED BY <2>1 DEF NotSignedIn, AnswersLast, SessionAtEase, LoopAsksNothing
<1>2. CASE Endpoint
  <2>1. PICK task \in Tasks : TokenIssued(task) \/ TokenRefused(task)
    BY <1>0, <1>2, CalmWorld DEF Endpoint
  <2>2. task = "Session" /\ request[task] = "Code"
    BY <2>1, Words DEF TokenIssued, TokenRefused, Awaits, NotSignedIn, LoopAsksNothing,
       SessionAtEase
  <2>3. TokenIssued(task)
    BY <2>1, <2>2 DEF TokenRefused
  <2>4. AnswersLast' /\ SessionAtEase'
    BY <1>0, <2>3, EaseIssued DEF NotSignedIn
  <2>5. /\ store' = store /\ loop' = loop /\ session' = session /\ purpose' = purpose
        /\ request' = request /\ answer'["Loop"] = answer["Loop"]
    BY <1>0, <2>2, <2>3 DEF TokenIssued, Answers, loopVars, sessionVars, TypeOK
  <2> QED BY <2>4, <2>5 DEF NotSignedIn, LoopAsksNothing
<1>3. CASE RefreshLoop
  <2>1. LoopStarts
    BY <1>3 DEF RefreshLoop, TimerFires, RefreshEnds, LoopRetries, NotSignedIn
  <2>2. loop' = "Waiting" /\ timer' = None
    BY <1>0, <2>1, CalmWorld, Words DEF LoopStarts, Schedule, NotSignedIn
  <2>3. /\ store' = None /\ accepted' = accepted /\ left' = left
        /\ session' = session /\ purpose' = purpose
        /\ held' = held /\ request' = request /\ answer' = answer
    BY <2>1 DEF LoopStarts, discordVars, sessionVars, httpVars, NotSignedIn
  <2>4. AnswersLast' /\ Disarmed' /\ LoopAsksNothing'
    BY <2>2, <2>3 DEF NotSignedIn, AnswersLast, Disarmed, LoopAsksNothing
  <2>5. session = "Authenticating" => purpose = "Authorized" /\ held \in Tokens
    BY <1>0 DEF NotSignedIn, SessionAtEase, TypeOK
  <2>6. /\ session # "Refreshing"
        /\ session = "Authorizing" =>
              request["Session"] = "Code" /\ answer["Session"] \in Tokens \union {None}
        /\ session # "Authorizing" => request["Session"] = None /\ answer["Session"] = None
    BY DEF NotSignedIn, SessionAtEase
  <2>7. SessionAlone'
    BY <2>3, <2>4, <2>5, <2>6 DEF SessionAlone
  <2> QED BY <2>7
<1>4. CASE Session
  <2>1. /\ AnswersLast' /\ SessionAtEase'
        /\ request'["Loop"] = request["Loop"] /\ answer'["Loop"] = answer["Loop"]
        /\ \/ store' = store
           \/ /\ store' = held /\ held \in Tokens /\ held \in accepted
              /\ left[held] = Lifetime /\ held # request["Loop"] /\ held \in live
    BY <1>4, EaseSession DEF NotSignedIn
  <2>2. /\ loop' = loop /\ live' = live /\ accepted' = accepted /\ left' = left
        /\ session' = "Authenticating" /\ store = None => purpose' = "Authorized"
    BY <1>0, <1>4, CalmWorld, Words
    DEF Session, SessionConnects, AuthenticateSucceeds, AuthenticateFails,
        SessionRefreshEnds, AuthorizationGiven, AuthorizationEnds, SessionEnds, Goes, Runs,
        loopVars, discordVars, NotSignedIn, SessionAtEase
  <2>3. CASE store' = store
    BY <2>1, <2>2, <2>3 DEF NotSignedIn, LoopAsksNothing
  <2>4. CASE store' # store
    <3>1. LoopInTime'
      BY <1>0, <2>1, <2>2, <2>4 DEF LoopInTime, NotSignedIn
    <3> QED BY <2>1, <2>2, <2>4, <3>1 DEF Armed, NotSignedIn, LoopAsksNothing
  <2> QED BY <2>3, <2>4
<1>5. ~Tick
  BY <1>0, CalmWorld DEF Tick, AllWait, NotSignedIn
<1> QED BY <1>0, <1>1, <1>2, <1>3, <1>4, <1>5, CalmWorld DEF Next

\* The endpoint serves the session, which asks for what is stored or with a code.
LEMMA AloneEndpoint ==
    ASSUME TokenInv, Calm, SessionAlone, Endpoint
    PROVE  SessionAlone' /\ store' = store
<1>0. TypeOK /\ Asking
  BY DEF TokenInv
<1>1. PICK task \in Tasks : TokenIssued(task) \/ TokenRefused(task)
  BY <1>0, CalmWorld DEF Endpoint
<1>2. task = "Session" /\ answer["Session"] = None /\ session \in {"Refreshing", "Authorizing"}
  BY <1>1 DEF TokenIssued, TokenRefused, Awaits, SessionAlone, LoopAsksNothing
<1>3. /\ store # None => store \in live
      /\ session = "Refreshing" => request["Session"] = store /\ store \in Tokens
      /\ session = "Authorizing" => request["Session"] = "Code"
  BY <1>2, Words DEF SessionAlone
<1>4. TokenIssued(task)
  BY <1>1, <1>2, <1>3, Words DEF TokenRefused
<1>5. PICK new \in Tokens :
         /\ new \notin InUse /\ answer' = [answer EXCEPT ![task] = new]
         /\ store' = store /\ loop' = loop /\ timer' = timer /\ session' = session
         /\ purpose' = purpose /\ held' = held /\ request' = request /\ world' = world
         /\ new \in accepted' /\ left'[new] = Lifetime
         /\ \A t \in Tokens \intersect InUse :
               /\ left'[t] = left[t] /\ (t \in accepted => t \in accepted')
               /\ t \in live /\ t # request[task] => t \in live'
  BY <1>0, <1>4, IssueEffect
<1>6. answer'["Session"] = new /\ answer'["Loop"] = answer["Loop"]
  BY <1>0, <1>2, <1>5 DEF TypeOK
<1>7. AnswersLast'
  BY <1>0, <1>4, EaseIssued DEF SessionAlone
<1>8. ASSUME store # None, session = "Authorizing" PROVE store \in live'
  BY <1>0, <1>2, <1>3, <1>5, <1>8, Held, Words DEF TypeOK
<1>9. Disarmed' /\ LoopAsksNothing'
  BY <1>5, <1>6 DEF SessionAlone, Disarmed, LoopAsksNothing
<1> QED BY <1>2, <1>3, <1>5, <1>6, <1>7, <1>8, <1>9, Words DEF SessionAlone

\* The session saves only what it has just obtained.
LEMMA AloneSession ==
    ASSUME TokenInv, Calm, SessionAlone, Session
    PROVE  SessionAlone' /\ (store # None => store' # None)
<1>0. /\ TypeOK /\ "Loop" \in Tasks /\ "Session" \in Tasks
      /\ live' = live /\ accepted' = accepted /\ left' = left /\ loop' = loop /\ timer' = timer
  BY DEF TokenInv, Session, SessionConnects, AuthenticateSucceeds, AuthenticateFails,
     SessionRefreshEnds, AuthorizationGiven, AuthorizationEnds, SessionEnds, loopVars, discordVars
<1>a. Lifetime \in Nat /\ Lifetime > 0
  BY TokenRefreshAssumption
<1>1. /\ request'["Loop"] = request["Loop"] /\ answer'["Loop"] = answer["Loop"]
      /\ answer'["Session"] \in {answer["Session"], None}
  BY <1>0 DEF Session, SessionConnects, AuthenticateSucceeds, AuthenticateFails,
     SessionRefreshEnds, AuthorizationGiven, AuthorizationEnds, SessionEnds, Asks, Done, httpVars,
     TypeOK
<1>2. AnswersLast' /\ Disarmed' /\ LoopAsksNothing'
  <2>1. AnswersLast'
    BY <1>0, <1>1, Words DEF AnswersLast, SessionAlone
  <2> QED BY <1>0, <1>1, <2>1 DEF SessionAlone, Disarmed, LoopAsksNothing
<1>3. CASE SessionConnects
  <2>1. /\ session = "Down" /\ store' = store /\ answer' = answer
        /\ \/ Goes("Authenticating", "Restored", store) /\ store \in Tokens /\ request' = request
           \/ /\ Goes("Refreshing", None, store) /\ store \in Tokens
              /\ request'["Session"] = store
           \/ Runs /\ request' = request
    BY <1>0, <1>3, CalmWorld, Words DEF SessionConnects, Asks, httpVars, TypeOK
  <2>2. store # None => store \in live
    BY <2>1 DEF SessionAlone
  <2>3. request["Session"] = None /\ answer["Session"] = None
    BY <2>1 DEF SessionAlone
  <2> QED BY <1>0, <1>2, <2>1, <2>2, <2>3, Words DEF SessionAlone, Goes, Runs
<1>4. CASE AuthenticateSucceeds
  <2>1. /\ Runs /\ request' = request /\ answer' = answer /\ session = "Authenticating"
        /\ \/ Saves /\ store' = held
           \/ ~Saves /\ store' = store
    BY <1>0, <1>4, CalmWorld DEF AuthenticateSucceeds, httpVars
  <2>2. request["Session"] = None /\ answer["Session"] = None /\ held \in Tokens
    BY <2>1 DEF SessionAlone
  <2>3. Saves => held \in live
    BY <1>0, <2>1, <2>2, CalmWorld DEF TokenInv, NewLive, InHand
  <2>4. store' # None => store' \in live'
    BY <1>0, <2>1, <2>3 DEF SessionAlone, Saves
  <2> QED BY <1>2, <2>1, <2>2, <2>4, Words DEF SessionAlone, Runs, Goes
<1>5. CASE AuthenticateFails
  <2>1. /\ session = "Authenticating" /\ store' = store /\ answer' = answer
        /\ purpose # "Refreshed"
        /\ \/ /\ purpose = "Restored" /\ Goes("Refreshing", None, held)
              /\ request'["Session"] = held
           \/ Runs /\ request' = request
    BY <1>0, <1>5, CalmWorld DEF AuthenticateFails, SessionAlone, Asks, httpVars, TypeOK
  <2>2. /\ request["Session"] = None /\ answer["Session"] = None /\ held \in Tokens
        /\ purpose = "Restored" => held = store
        /\ store # None => store \in live
    BY <2>1 DEF SessionAlone
  <2> QED BY <1>0, <1>2, <2>1, <2>2, Words DEF SessionAlone, Runs, Goes
<1>6. CASE SessionRefreshEnds
  <2>1. answer["Session"] \in Tokens /\ Done("Session") /\ store' = store
        /\ Goes("Authenticating", "Refreshed", answer["Session"])
    BY <1>6, Words DEF SessionRefreshEnds, SessionAlone
  <2>2. request'["Session"] = None /\ answer'["Session"] = None
    BY <1>0, <2>1 DEF Done, TypeOK
  <2>3. answer["Session"] \in accepted /\ left[answer["Session"]] > 0
    BY <1>0, <1>a, <2>1 DEF SessionAlone, AnswersLast
  <2> QED BY <1>0, <1>2, <2>1, <2>2, <2>3 DEF SessionAlone, Goes
<1>7. CASE AuthorizationGiven
  <2>1. /\ session = "Running" /\ store' = store /\ answer' = answer
        /\ Goes("Authorizing", None, None) /\ request'["Session"] = "Code"
    BY <1>0, <1>7 DEF AuthorizationGiven, Asks, TypeOK
  <2>2. answer["Session"] = None /\ (store # None => store \in live)
    BY <2>1 DEF SessionAlone
  <2> QED BY <1>0, <1>2, <2>1, <2>2 DEF SessionAlone, Goes
<1>8. CASE AuthorizationEnds
  <2>1. /\ session = "Authorizing" /\ store' = store /\ Done("Session")
        /\ answer["Session"] \in Tokens /\ Goes("Authenticating", "Authorized", answer["Session"])
    BY <1>8 DEF AuthorizationEnds, SessionAlone
  <2>2. request'["Session"] = None /\ answer'["Session"] = None
    BY <1>0, <2>1 DEF Done, TypeOK
  <2>3. store # None => store \in live
    BY <2>1 DEF SessionAlone
  <2> QED BY <1>0, <1>2, <2>1, <2>2, <2>3 DEF SessionAlone, Goes
<1>9. CASE SessionEnds
  <2>1. /\ session = "Running" /\ store' = store /\ answer' = answer /\ request' = request
        /\ Goes("Down", None, None)
    BY <1>9 DEF SessionEnds, httpVars
  <2>2. /\ request["Session"] = None /\ answer["Session"] = None
        /\ store # None => store \in live
    BY <2>1 DEF SessionAlone
  <2> QED BY <1>0, <1>2, <2>1, <2>2 DEF SessionAlone, Goes
<1> QED BY <1>3, <1>4, <1>5, <1>6, <1>7, <1>8, <1>9 DEF Session

LEMMA AloneStep ==
    ASSUME TokenInv, Calm, SessionAlone, [Next]_vars
    PROVE  SessionAlone' /\ (store # None => store' # None)
<1>0. TypeOK /\ None \notin Nat
  BY TokenRefreshAssumption DEF TokenInv
<1>1. ~RefreshLoop
  BY <1>0 DEF RefreshLoop, LoopStarts, TimerFires, RefreshEnds, LoopRetries, SessionAlone, Disarmed
<1>2. CASE Tick \/ UNCHANGED vars
  <2>1. /\ store' = store /\ live' = live /\ accepted' = accepted /\ loop' = loop
        /\ session' = session /\ purpose' = purpose /\ held' = held
        /\ request' = request /\ answer' = answer
        /\ timer' = timer \/ timer # None
        /\ left' = left \/ session \in {"Down", "Running"}
    BY <1>0, <1>2, CalmWorld DEF Tick, AllWait, vars, discordVars, loopVars, sessionVars, httpVars
  <2>2. AnswersLast'
    BY <2>1, Words DEF AnswersLast, SessionAlone, LoopAsksNothing
  <2>3. Disarmed' /\ LoopAsksNothing'
    BY <2>1 DEF Disarmed, LoopAsksNothing, SessionAlone
  <2>4. CASE left' = left
    BY <2>1, <2>2, <2>3, <2>4 DEF SessionAlone
  <2>5. CASE session \in {"Down", "Running"}
    BY <2>1, <2>2, <2>3, <2>5 DEF SessionAlone
  <2> QED BY <2>1, <2>4, <2>5
<1> QED BY <1>0, <1>1, <1>2, CalmWorld, AloneEndpoint, AloneSession DEF Next

\* Who renews what is stored while nothing fails; a program that starts signed in
\* arms its loop, and keeps it armed.
Renewed ==
    Calm => /\ Armed \/ NotSignedIn \/ SessionAlone
            /\ world.signed_in => Armed

LEMMA InitRenewed == Init => Renewed
<1> SUFFICES ASSUME Init, Calm PROVE IF world.signed_in THEN Armed ELSE NotSignedIn
  BY DEF Renewed
<1>0. Lifetime \in Nat /\ Margin \in 1 .. Lifetime - 1
  BY TokenRefreshAssumption
<1>1. AnswersLast /\ SessionAtEase /\ LoopAsksNothing
  BY Words DEF Init, AnswersLast, SessionAtEase, LoopAsksNothing
<1>2. CASE world.signed_in
  <2>1. store \in Tokens
    <3>1. (CHOOSE t \in Tokens : TRUE) \in Tokens
      BY OneMore
    <3> QED BY <1>2, <3>1 DEF Init
  <2>2. store \in live /\ store \in accepted /\ left[store] = Lifetime
    BY <2>1, Words DEF Init
  <2>3. LoopInTime
    BY <1>0, <2>2 DEF Init, LoopInTime
  <2> QED BY <1>1, <1>2, <2>1, <2>2, <2>3 DEF Armed
<1>3. CASE ~world.signed_in
  BY <1>1, <1>3 DEF Init, NotSignedIn
<1> QED BY <1>2, <1>3

LEMMA NextRenewed ==
    ASSUME TokenInv, Renewed, [Next]_vars
    PROVE  Renewed' /\ (Calm /\ store # None => store' # None)
<1>1. world' = world
  BY DEF Next, vars, Endpoint, TokenIssued, TokenRefused, TokenUnreachable, Answers,
     AccessRevoked, RefreshLoop, LoopStarts, TimerFires, RefreshEnds, LoopRetries, Session,
     SessionConnects, AuthenticateSucceeds, AuthenticateFails, SessionRefreshEnds,
     AuthorizationGiven, AuthorizationEnds, SessionEnds, Restart, Tick, worldVars
<1>2. (Calm' <=> Calm) /\ (world'.signed_in <=> world.signed_in)
  BY <1>1 DEF Calm
<1>3. ASSUME Calm
      PROVE  /\ Armed' \/ NotSignedIn' \/ SessionAlone'
             /\ world.signed_in => Armed'
             /\ store # None => store' # None
  <2>1. CASE Armed
    BY <1>3, <2>1, ArmedStep
  <2>2. CASE ~Armed
    <3>1. ~world.signed_in /\ (NotSignedIn \/ SessionAlone)
      BY <1>3, <2>2 DEF Renewed
    <3>2. CASE NotSignedIn
      BY <1>3, <3>1, <3>2, NotSignedInStep DEF NotSignedIn
    <3>3. CASE SessionAlone
      BY <1>3, <3>1, <3>3, AloneStep
    <3> QED BY <3>1, <3>2, <3>3
  <2> QED BY <2>1, <2>2
<1> QED BY <1>2, <1>3 DEF Renewed

\* As long as nothing fails, nobody who is signed in is ever signed out: the loop and
\* the session never use up a refresh token that the other still needs, whichever of
\* them renews what is stored.
THEOREM StaysSignedIn == Spec => NeverSignedOut
<1>1. Init => TokenInv /\ Renewed
  BY InitType, InitHeld, InitRenewed DEF TokenInv, Init, Asking
<1>2. TokenInv /\ Renewed /\ [Next]_vars => (TokenInv /\ Renewed)'
  BY NextTokenInv, NextRenewed
<1>3. TokenInv /\ Renewed /\ [Next]_vars => [Calm /\ store # None => store' # None]_vars
  BY NextRenewed
<1> QED BY <1>1, <1>2, <1>3, PTL DEF Spec, NeverSignedOut

\* A program that is started signed in renews what is stored before it expires, as long
\* as nothing fails. One that is started signed out never arms its loop: what it is
\* authorized later expires.
THEOREM RenewedInTime == Spec /\ world.signed_in => []StoredTokenNeverExpires
<1>1. Init /\ world.signed_in => TokenInv /\ Renewed /\ world.signed_in
  BY InitType, InitHeld, InitRenewed DEF TokenInv, Init, Asking
<1>2. TokenInv /\ Renewed /\ world.signed_in /\ [Next]_vars
         => (TokenInv /\ Renewed /\ world.signed_in)'
  <2>1. [Next]_vars => world' = world
    BY DEF Next, vars, Endpoint, TokenIssued, TokenRefused, TokenUnreachable, Answers,
       AccessRevoked, RefreshLoop, LoopStarts, TimerFires, RefreshEnds, LoopRetries, Session,
       SessionConnects, AuthenticateSucceeds, AuthenticateFails, SessionRefreshEnds,
       AuthorizationGiven, AuthorizationEnds, SessionEnds, Restart, Tick, worldVars
  <2> QED BY <2>1, NextTokenInv, NextRenewed
<1>3. TokenInv /\ Renewed /\ world.signed_in => StoredTokenNeverExpires
  <2> SUFFICES ASSUME TokenInv, Armed PROVE left[store] > 0
    BY DEF Renewed, StoredTokenNeverExpires
  <2>1. left[store] \in Nat /\ Margin \in Nat /\ Margin > 0
    BY TokenRefreshAssumption DEF Armed, TokenInv, TypeOK
  <2> QED BY <2>1 DEF Armed, LoopInTime
<1> QED BY <1>1, <1>2, <1>3, PTL DEF Spec
=============================================================================
