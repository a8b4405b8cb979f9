----------------------------- MODULE TokenRefresh -----------------------------
(***************************************************************************)
(* The two tasks that share the stored Discord token set                   *)
(* (crates/voxshift-discord/src/auth.rs): the background refresh loop, and *)
(* the Discord session, which authenticates with it on every connection,   *)
(* refreshes it when it must, and replaces it when the user authorizes.    *)
(*                                                                         *)
(* Both run on one thread, so what happens between two awaits is one step; *)
(* the awaits are the timer, the retry delay, the token endpoint and the   *)
(* RPC pipe, and the other task runs meanwhile.                            *)
(***************************************************************************)
EXTENDS Integers, FiniteSets

CONSTANTS
    Tokens,         \* identities of token sets; one is reused when nobody holds it
    None,
    Lifetime,       \* expires_in, in ticks
    Margin,         \* REFRESH_MARGIN, in ticks
    Worlds          \* the surroundings a run starts in

FaultKinds == {"Network", "Pipe", "Store", "Revocation"}
Tasks      == {"Loop", "Session"}

\* signed_in: whether a token set is stored when the program is installed;
\* authorizes: whether the user asks for an authorization, any time;
\* prompt: whether every await but the timer ends before time passes;
\* faults: what can go wrong; restarts: how often the program is started again.
World == [ signed_in : BOOLEAN, authorizes : BOOLEAN, prompt : BOOLEAN,
           faults : SUBSET FaultKinds, restarts : Nat ]

ASSUME TokenRefreshAssumption ==
    /\ None \notin Tokens \union Nat /\ {"Refused", "Unreachable", "Code", "Error"} \intersect Tokens = {}
    /\ Cardinality(Tokens) > 4
    /\ Lifetime \in Nat /\ Margin \in 1 .. Lifetime - 1
    /\ Worlds \subseteq World

VARIABLES
    world,          \* one of Worlds
    store,          \* the Credential Manager: a token set or None
    left,           \* ticks until expires_at of each token set
    live,           \* token sets whose refresh token Discord accepts
    accepted,       \* token sets whose access token Discord accepts
    loop, timer,    \* where run_refresh_loop is, and RefreshTimer
    session,        \* where the session is
    purpose, held,  \* why it authenticates, and the token set it has in hand
    request,        \* per task, what it has sent to the token endpoint:
                    \* a token set to refresh or an authorization code
    answer,         \* per task, the token set issued, "Refused" or "Unreachable"
    restarts_left

discordVars == <<live, accepted, left>>
loopVars    == <<loop, timer>>
sessionVars == <<session, purpose, held>>
httpVars    == <<request, answer>>
worldVars   == <<world, restarts_left>>
vars == <<store, discordVars, loopVars, sessionVars, httpVars, worldVars>>

LoopStates    == {"Starting", "Waiting", "Refreshing", "Retrying"}
SessionStates == {"Down", "Authenticating", "Refreshing", "Authorizing", "Running"}
Purposes      == {"Restored", "Refreshed", "Kept", "Authorized"}

TypeOK ==
    /\ world \in Worlds
    /\ store \in Tokens \union {None}
    /\ left \in [Tokens -> 0 .. Lifetime]
    /\ live \subseteq Tokens /\ accepted \subseteq Tokens
    /\ loop \in LoopStates /\ timer \in 0 .. Lifetime \union {None}
    /\ session \in SessionStates /\ purpose \in Purposes \union {None}
    /\ held \in Tokens \union {None}
    /\ request \in [Tasks -> Tokens \union {"Code", None}]
    /\ answer \in [Tasks -> Tokens \union {"Refused", "Unreachable", None}]
    /\ restarts_left \in 0 .. world.restarts

Init ==
    /\ world \in Worlds
    /\ store = IF world.signed_in THEN CHOOSE t \in Tokens : TRUE ELSE None
    /\ live = {store} \ {None} /\ accepted = live
    /\ left = [t \in Tokens |-> IF t = store THEN Lifetime ELSE 0]
    /\ loop = "Starting" /\ timer = None
    /\ session = "Down" /\ purpose = None /\ held = None
    /\ request = [a \in Tasks |-> None] /\ answer = [a \in Tasks |-> None]
    /\ restarts_left = world.restarts

FreshBeyondMargin(token) == left[token] > Margin

\* ~is_expired_within(0), by the time the token set was said to last.
Fresh(token) == left[token] > 0

-----------------------------------------------------------------------------
(* The credential store.                                                   *)

\* What load() may return with this stored.
Loaded(value) == {value} \union (IF "Store" \in world.faults THEN {"Error"} ELSE {})

\* save() and clear(): both callers go on when the store refuses.
Store(value) == \/ store' = value
                \/ "Store" \in world.faults /\ UNCHANGED store

-----------------------------------------------------------------------------
(* Discord's token endpoint: a refresh token can be used once.             *)

InUse == {store, held} \union {request[a] : a \in Tasks} \union {answer[a] : a \in Tasks}

Asks(task, what) == /\ request' = [request EXCEPT ![task] = what]
                    /\ UNCHANGED answer

Done(task) == /\ request' = [request EXCEPT ![task] = None]
              /\ answer' = [answer EXCEPT ![task] = None]

Awaits(task) == request[task] # None /\ answer[task] = None

Answers(task, reply) ==
    /\ answer' = [answer EXCEPT ![task] = reply]
    /\ UNCHANGED <<store, loopVars, sessionVars, request, worldVars>>

\* Any identity that nobody holds will do.
Unused == CHOOSE t \in Tokens : t \notin InUse

Issues(task) ==
    /\ request[task] \in live \union {"Code"}
    /\ live' = {Unused} \union ((live \intersect InUse) \ {request[task]})
    /\ accepted' = {Unused} \union (accepted \intersect InUse)
    /\ left' = [t \in Tokens |-> IF t = Unused THEN Lifetime
                                 ELSE IF t \in InUse THEN left[t] ELSE 0]

TokenIssued(task) ==
    /\ Awaits(task)
    /\ Issues(task)
    /\ Answers(task, Unused)

TokenRefused(task) ==
    /\ Awaits(task)
    /\ request[task] \notin live \union {"Code"}
    /\ Answers(task, "Refused")
    /\ UNCHANGED discordVars

\* No answer within the client's ten seconds, or none that can be read; the
\* request may have been served all the same.
TokenUnreachable(task) ==
    /\ "Network" \in world.faults
    /\ Awaits(task)
    /\ UNCHANGED discordVars \/ Issues(task)
    /\ Answers(task, "Unreachable")

\* The user removes the application from the account.
AccessRevoked ==
    /\ "Revocation" \in world.faults
    /\ live # {}
    /\ live' = {} /\ accepted' = {}
    /\ UNCHANGED <<store, left, loopVars, sessionVars, httpVars, worldVars>>

-----------------------------------------------------------------------------
(* run_refresh_loop.                                                       *)

DelayWithoutMargin(token) == left[token]

DelayUnbounded(token) == left[token] - Margin

\* arm(): at once when the margin has begun.
Delay(token) == IF left[token] > Margin THEN left[token] - Margin ELSE 0

\* The top of the loop: the timer is armed for what is stored now, or disarmed.
Schedule(loaded) ==
    /\ loop' = "Waiting"
    /\ timer' = IF loaded \in Tokens THEN Delay(loaded) ELSE None

LoopStarts ==
    /\ loop = "Starting"
    /\ \E loaded \in Loaded(store) : Schedule(loaded)
    /\ UNCHANGED <<store, discordVars, sessionVars, httpVars, worldVars>>

GivesUp == loop' = "Waiting" /\ timer' = None

RetriesLater == loop' = "Retrying" /\ timer' = None

TimerFires ==
    /\ loop = "Waiting" /\ timer = 0
    /\ \E loaded \in Loaded(store) :
          \/ /\ loaded \in Tokens
             /\ loop' = "Refreshing" /\ timer' = None
             /\ Asks("Loop", loaded)
          \/ /\ loaded = None
             /\ Schedule(None)
             /\ UNCHANGED httpVars
          \/ /\ loaded = "Error"
             /\ RetriesLater
             /\ UNCHANGED httpVars
    /\ UNCHANGED <<store, discordVars, sessionVars, worldVars>>

\* After a save or a clear the loop goes round at once, and loads what is stored then.
RefreshEnds ==
    /\ loop = "Refreshing"
    /\ answer["Loop"] # None
    /\ \/ /\ answer["Loop"] \in Tokens \union {"Refused"}
          /\ Store(IF answer["Loop"] = "Refused" THEN None ELSE answer["Loop"])
          /\ \E loaded \in Loaded(store') : Schedule(loaded)
       \/ /\ answer["Loop"] = "Unreachable"
          /\ RetriesLater
          /\ UNCHANGED store
    /\ Done("Loop")
    /\ UNCHANGED <<discordVars, sessionVars, worldVars>>

\* REFRESH_RETRY_DELAY has passed.
LoopRetries ==
    /\ loop = "Retrying"
    /\ \E loaded \in Loaded(store) : Schedule(loaded)
    /\ UNCHANGED <<store, discordVars, sessionVars, httpVars, worldVars>>

-----------------------------------------------------------------------------
(* The session: try_restore_session, try_refresh, authorize_now.           *)

Goes(state, why, token) == session' = state /\ purpose' = why /\ held' = token

Runs == Goes("Running", None, None)

\* discord_supervisor has a pipe, and try_restore_session looks at what is stored.
SessionConnects ==
    /\ session = "Down"
    /\ \E loaded \in Loaded(store) :
          \/ /\ loaded \in Tokens
             /\ IF Fresh(loaded)
                THEN Goes("Authenticating", "Restored", loaded) /\ UNCHANGED httpVars
                ELSE Goes("Refreshing", None, loaded) /\ Asks("Session", loaded)
          \/ /\ loaded \notin Tokens
             /\ Runs
             /\ UNCHANGED httpVars
    /\ UNCHANGED <<store, discordVars, loopVars, worldVars>>

SavesWhateverItUses == TRUE

\* Only a token set obtained just now is saved.
Saves == purpose \in {"Refreshed", "Authorized"}

AuthenticateSucceeds ==
    /\ session = "Authenticating"
    /\ held \in accepted /\ left[held] > 0
    /\ IF Saves THEN Store(held) ELSE UNCHANGED store
    /\ Runs
    /\ UNCHANGED <<discordVars, loopVars, httpVars, worldVars>>

AuthenticateFails ==
    /\ session = "Authenticating"
    /\ held \notin accepted \/ left[held] = 0 \/ "Pipe" \in world.faults
    /\ IF purpose = "Restored"
       THEN Goes("Refreshing", None, held) /\ Asks("Session", held)
       ELSE Runs /\ UNCHANGED httpVars
    /\ UNCHANGED <<store, discordVars, loopVars, worldVars>>

\* try_refresh has its answer: an unreachable endpoint is tolerated while the
\* access token lasts.
SessionRefreshEnds ==
    /\ session = "Refreshing"
    /\ answer["Session"] # None
    /\ \/ /\ answer["Session"] \in Tokens
          /\ Goes("Authenticating", "Refreshed", answer["Session"])
          /\ UNCHANGED store
       \/ /\ answer["Session"] = "Refused"
          /\ Store(None)
          /\ Runs
       \/ /\ answer["Session"] = "Unreachable"
          /\ IF Fresh(held) THEN Goes("Authenticating", "Kept", held) ELSE Runs
          /\ UNCHANGED store
    /\ Done("Session")
    /\ UNCHANGED <<discordVars, loopVars, worldVars>>

\* The user presses Authorize and consents in Discord; to decline changes nothing.
AuthorizationGiven ==
    /\ world.authorizes
    /\ session = "Running"
    /\ Goes("Authorizing", None, None)
    /\ Asks("Session", "Code")
    /\ UNCHANGED <<store, discordVars, loopVars, worldVars>>

AuthorizationEnds ==
    /\ session = "Authorizing"
    /\ answer["Session"] # None
    /\ IF answer["Session"] \in Tokens
       THEN Goes("Authenticating", "Authorized", answer["Session"])
       ELSE Runs
    /\ Done("Session")
    /\ UNCHANGED <<store, discordVars, loopVars, worldVars>>

\* The pipe closes; the supervisor will connect again.
SessionEnds ==
    /\ session = "Running"
    /\ Goes("Down", None, None)
    /\ UNCHANGED <<store, discordVars, loopVars, httpVars, worldVars>>

-----------------------------------------------------------------------------
\* The program stops, at any await, and is started again: only the store survives.
Restart ==
    /\ restarts_left > 0
    /\ restarts_left' = restarts_left - 1
    /\ loop' = "Starting" /\ timer' = None
    /\ Goes("Down", None, None)
    /\ request' = [a \in Tasks |-> None] /\ answer' = [a \in Tasks |-> None]
    /\ UNCHANGED <<store, discordVars, world>>

\* Everything but the timer and the pipe of a running session is still.
AllWait == loop = "Waiting" /\ timer # 0 /\ session \in {"Down", "Running"}

Tick ==
    /\ world.prompt => AllWait
    /\ \E t \in Tokens : left[t] > 0
    /\ left' = [t \in Tokens |-> IF left[t] = 0 THEN 0 ELSE left[t] - 1]
    /\ timer' = IF timer \in {0, None} THEN timer ELSE timer - 1
    /\ UNCHANGED <<store, live, accepted, loop, sessionVars, httpVars, worldVars>>

Endpoint ==
    \E task \in Tasks : TokenIssued(task) \/ TokenRefused(task) \/ TokenUnreachable(task)

RefreshLoop == LoopStarts \/ TimerFires \/ RefreshEnds \/ LoopRetries

Session == \/ SessionConnects \/ AuthenticateSucceeds \/ AuthenticateFails
           \/ SessionRefreshEnds \/ AuthorizationGiven \/ AuthorizationEnds \/ SessionEnds

Next == Endpoint \/ AccessRevoked \/ RefreshLoop \/ Session \/ Restart \/ Tick

\* Time passes, the loop runs, and the endpoint answers and is not unreachable for
\* ever.
Fairness ==
    /\ WF_vars(Tick)
    /\ WF_vars(RefreshLoop)
    /\ \A task \in Tasks : WF_vars(TokenIssued(task) \/ TokenRefused(task))
    /\ SF_vars(TokenIssued("Loop") \/ TokenRefused("Loop"))

Spec     == Init /\ [][Next]_vars
FairSpec == Spec /\ Fairness

-----------------------------------------------------------------------------
Calm == world.prompt /\ world.faults = {} /\ world.restarts = 0

\* As long as nothing fails, a stored access token is always renewed before it
\* expires, whatever reconnections, authorizations and refreshes coincide.
StoredTokenNeverExpires == Calm /\ store # None => left[store] > 0

\* As long as nothing fails, nobody is ever signed out: no interleaving of the two
\* tasks makes one use up a refresh token that the other still needs.
NeverSignedOut == [][Calm /\ store # None => store' # None]_vars

\* No interleaving makes a task save a token set whose refresh token the other has
\* used up: what is saved can always be refreshed, short of a revocation.
SavedTokensLive ==
    [][store' # store /\ store' # None /\ "Revocation" \notin world.faults
          => store' \in live]_vars

\* The loop sleeps until something else wakes it, which nothing does.
Disarmed == loop = "Waiting" /\ timer = None

\* While it is armed and the store works, the loop does not give up on a token set
\* that has come due: despite lost answers, broken pipes, revocations and restarts
\* that one is replaced or, once refused, cleared.
DueTokenHandled ==
    \A t \in Tokens :
       store = t /\ left[t] <= Margin /\ ~Disarmed /\ "Store" \notin world.faults ~> store # t
=============================================================================
