----------------------------- MODULE TokenCache ------------------------------
(***************************************************************************)
(* internal/oauth: how invocations of the parser share one token cache.    *)
(*                                                                         *)
(* A run calls Token once per account.  It reads the clock and the cache,  *)
(* hands out the cached access token if that is good for a while, and      *)
(* otherwise asks the token endpoint for a new one with the newest refresh *)
(* token it knows.  The endpoint answers with an access token and, if it   *)
(* rotates, with a new refresh token in place of the one it was sent; only *)
(* then is the cache written, to a temporary file that is renamed.  Runs   *)
(* may overlap, die, or lose the answer.                                   *)
(*                                                                         *)
(* Refresh tokens are numbered in the order of issue.  An access token is  *)
(* named by the time at which it really expires.                           *)
(***************************************************************************)
EXTENDS Integers, FiniteSets

CONSTANTS
    Procs,      \* runs that may be alive at the same time
    CachePath,  \* whether a cache is configured
    Rotates,    \* whether the endpoint rotates refresh tokens
    Lives,      \* lifetimes the endpoint gives to access tokens
    Skew,       \* expirySkew
    MaxTokens,  \* bound: refresh tokens issued
    MaxTime,    \* bound: the clock
    Faults,     \* kinds of failure that may happen
    MaxFaults   \* bound: failures in a behaviour

FaultKinds == {"read", "reply", "write", "rename", "crash"}

ASSUME TokenAssumption ==
    /\ CachePath \in BOOLEAN
    /\ Rotates \in BOOLEAN
    /\ Lives \subseteq Nat \ {0}
    /\ Skew \in Nat
    /\ MaxTokens \in Nat \ {0}
    /\ MaxTime \in Nat
    /\ MaxFaults \in Nat
    /\ Faults \subseteq FaultKinds

VARIABLES
    now,        \* the clock
    issued,     \* refresh tokens issued so far
    superseded, \* refresh tokens the endpoint has replaced
    dead,       \* refresh tokens it no longer takes
    config,     \* the bootstrap token of the configuration
    file,       \* the cache file
    lost,       \* history: tokens whose replacement was lost
    faults,     \* failures so far
    pc,         \* where each run is in Token
    start,      \* the time it read at the beginning
    using,      \* the refresh token it sends
    draft,      \* the cache it is about to save
    access      \* the access token it returns, and whether the cache gave it

endpoint == <<issued, superseded, dead>>
vars == <<now, endpoint, config, file, lost, faults,
          pc, start, using, draft, access>>

None == 0
Tokens == 1..MaxTokens

tokenCache == [access : Nat, refresh : Tokens \cup {None}, expiry : Nat]

\* A missing, empty or corrupt file.
Empty == [access |-> None, refresh |-> None, expiry |-> 0]
NoAccess == [until |-> None, cached |-> FALSE]

Saving == {"write", "rename"}

TypeOK ==
    /\ now \in 0..MaxTime
    /\ issued \in Tokens
    /\ superseded \subseteq Tokens
    /\ dead \subseteq superseded
    /\ config \in Tokens
    /\ file \in tokenCache
    /\ lost \subseteq Tokens
    /\ faults \in 0..MaxFaults
    /\ pc \in [Procs -> {"idle", "load", "ask", "use"} \cup Saving]
    /\ start \in [Procs -> 0..MaxTime]
    /\ using \in [Procs -> Tokens \cup {None}]
    /\ draft \in [Procs -> tokenCache]
    /\ access \in [Procs -> [until : Nat, cached : BOOLEAN]]

Init ==
    /\ now = 0
    /\ issued = 1
    /\ superseded = {}
    /\ dead = {}
    /\ config = 1
    /\ file = Empty
    /\ lost = {}
    /\ faults = 0
    /\ pc = [p \in Procs |-> "idle"]
    /\ start = [p \in Procs |-> 0]
    /\ using = [p \in Procs |-> None]
    /\ draft = [p \in Procs |-> Empty]
    /\ access = [p \in Procs |-> NoAccess]

Fault(kind) ==
    /\ kind \in Faults
    /\ faults < MaxFaults
    /\ faults' = faults + 1

(***************************************************************************)
(* Token                                                                   *)
(***************************************************************************)

\* Token begins: it reads the clock.
Begin(p) ==
    /\ pc[p] = "idle"
    /\ pc' = [pc EXCEPT ![p] = "load"]
    /\ start' = [start EXCEPT ![p] = now]
    /\ UNCHANGED <<now, endpoint, config, file, lost, faults, using, draft, access>>

\* The cached access token is good beyond the skew.
Good(p, c) == c.access # None /\ c.expiry > start[p] + Skew

\* The refresh token to use: the cached one before the configured one.
Choose(c) == IF c.refresh # None THEN c.refresh ELSE config

\* loadCache, which another run may have saved since, then the decision.
Load(p) ==
    /\ pc[p] = "load"
    /\ \E c \in {file, Empty} :
          /\ \/ c = (IF CachePath THEN file ELSE Empty) /\ UNCHANGED faults
             \/ CachePath /\ c = Empty /\ Fault("read")
          /\ IF Good(p, c)
             THEN /\ access' = [access EXCEPT ![p] = [until |-> c.access, cached |-> TRUE]]
                  /\ pc' = [pc EXCEPT ![p] = "use"]
                  /\ UNCHANGED using
             ELSE /\ using' = [using EXCEPT ![p] = Choose(c)]
                  /\ pc' = [pc EXCEPT ![p] = "ask"]
                  /\ UNCHANGED access
    /\ UNCHANGED <<now, endpoint, config, file, lost, start, draft>>

\* Token returns, with or without an access token; nothing else is left of it.
Leave(p) ==
    /\ pc' = [pc EXCEPT ![p] = "idle"]
    /\ start' = [start EXCEPT ![p] = 0]
    /\ using' = [using EXCEPT ![p] = None]
    /\ draft' = [draft EXCEPT ![p] = Empty]
    /\ access' = [access EXCEPT ![p] = NoAccess]

\* The replacement of the token in use is lost, if there is one.
Losing(p) == lost' = IF Rotates THEN lost \cup {using[p]} ELSE lost

\* The endpoint takes the refresh token and issues another in its place.
Granted(p) ==
    /\ using[p] \notin dead
    /\ IF Rotates
       THEN /\ issued < MaxTokens
            /\ issued' = issued + 1
            /\ superseded' = superseded \cup {using[p]}
       ELSE UNCHANGED <<issued, superseded>>
    /\ UNCHANGED dead

\* Mutant: the lifetime counts from when the answer has arrived.
LateExpiry(p, minted, life, stated) ==
    [access  |-> minted + life,
     refresh |-> IF Rotates THEN issued + 1 ELSE using[p],
     expiry  |-> now + stated]

\* The cache after an answer: the new refresh token, or the old one when the
\* answer names none; the lifetime that is stated counts from when Token was called.
Answer(p, minted, life, stated) ==
    [access  |-> minted + life,
     refresh |-> IF Rotates THEN issued + 1 ELSE using[p],
     expiry  |-> start[p] + stated]

\* The lifetime in the answer; one without expires_in reads as 0.
Stated(life) == {life, 0}

\* refresh: the answer arrives, or is lost, or there is none.  The access token
\* was minted at some time since Token was called.
Refresh(p) ==
    /\ pc[p] = "ask"
    /\ \/ \E life \in Lives, minted \in start[p]..now :
             /\ Granted(p)
             /\ IF CachePath
                THEN /\ \E stated \in Stated(life) :
                           draft' = [draft EXCEPT ![p] = Answer(p, minted, life, stated)]
                     /\ pc' = [pc EXCEPT ![p] = "write"]
                     /\ UNCHANGED <<access, lost>>
                ELSE /\ access' = [access EXCEPT ![p] =
                                      [until |-> minted + life, cached |-> FALSE]]
                     /\ pc' = [pc EXCEPT ![p] = "use"]
                     /\ Losing(p)
                     /\ UNCHANGED draft
             /\ UNCHANGED <<faults, start, using>>
       \/ /\ Granted(p)
          /\ Fault("reply")
          /\ Losing(p)
          /\ Leave(p)
       \/ /\ UNCHANGED <<endpoint, faults, lost>>
          /\ Leave(p)
    /\ UNCHANGED <<now, config, file>>

(***************************************************************************)
(* saveCache.  A failure makes Token fail, and the answer is lost.         *)
(***************************************************************************)

SaveFails(p, kind) ==
    /\ Fault(kind)
    /\ Losing(p)
    /\ Leave(p)
    /\ UNCHANGED file

\* Mutant: the cache file itself is truncated and written.
WriteInPlace(p) ==
    /\ pc[p] = "write"
    /\ file' = Empty
    /\ pc' = [pc EXCEPT ![p] = "rename"]
    /\ UNCHANGED <<now, endpoint, config, faults, lost, start, using, draft, access>>

\* A temporary file is created, written and closed; on a failure it is removed.
Write(p) ==
    /\ pc[p] = "write"
    /\ \/ /\ pc' = [pc EXCEPT ![p] = "rename"]
          /\ UNCHANGED <<file, faults, lost, start, using, draft, access>>
       \/ SaveFails(p, "write")
    /\ UNCHANGED <<now, endpoint, config>>

\* os.Rename; Token returns the access token.
Rename(p) ==
    /\ pc[p] = "rename"
    /\ \/ /\ file' = draft[p]
          /\ access' = [access EXCEPT ![p] = [until |-> draft[p].access, cached |-> FALSE]]
          /\ draft' = [draft EXCEPT ![p] = Empty]
          /\ pc' = [pc EXCEPT ![p] = "use"]
          /\ UNCHANGED <<faults, lost, start, using>>
       \/ SaveFails(p, "rename")
    /\ UNCHANGED <<now, endpoint, config>>

\* authenticate has used the access token.
Done(p) ==
    /\ pc[p] = "use"
    /\ Leave(p)
    /\ UNCHANGED <<now, endpoint, config, file, lost, faults>>

Crash(p) ==
    /\ pc[p] # "idle"
    /\ Fault("crash")
    /\ IF pc[p] \in Saving THEN Losing(p) ELSE UNCHANGED lost
    /\ Leave(p)
    /\ UNCHANGED <<now, endpoint, config, file>>

(***************************************************************************)
(* The world (external)                                                    *)
(***************************************************************************)

Tick ==
    /\ now < MaxTime
    /\ now' = now + 1
    /\ UNCHANGED <<endpoint, config, file, lost, faults,
                   pc, start, using, draft, access>>

\* The endpoint eventually retires the tokens it has replaced.
Retire(t) ==
    /\ t \in superseded \ dead
    /\ dead' = dead \cup {t}
    /\ UNCHANGED <<now, issued, superseded, config, file, lost, faults,
                   pc, start, using, draft, access>>

\* The operator consents again and configures another bootstrap token.
Rebootstrap ==
    /\ issued < MaxTokens
    /\ issued' = issued + 1
    /\ config' = issued + 1
    /\ UNCHANGED <<now, superseded, dead, file, lost, faults,
                   pc, start, using, draft, access>>

World == Tick \/ Rebootstrap \/ \E t \in Tokens : Retire(t)

Step(p) == Begin(p) \/ Load(p) \/ Refresh(p) \/ Write(p) \/ Rename(p) \/ Done(p)

Next == World \/ \E p \in Procs : Step(p) \/ Crash(p)

Spec == Init /\ [][Next]_vars

(***************************************************************************)
(* Properties                                                              *)
(***************************************************************************)

\* "a token about to expire is refreshed rather than presented moments before
\* the server rejects it": what the cache hands out really lives on for longer
\* than the skew, however long the request that fetched it took, and whichever
\* run saved it.
FreshAccess == \A p \in Procs :
                  pc[p] = "use" /\ access[p].cached
                     => access[p].until > start[p] + Skew

\* "the cache persists the newest one": the token the next run will send has
\* not been replaced at the endpoint, unless a run is about to save the
\* replacement, or the replacement of this token was lost in a failure.  Runs
\* that overlap do not put an old token back.
CacheCurrent == CachePath =>
    LET t == Choose(file) IN
    t \in superseded => \/ t \in lost
                        \/ \E p \in Procs : pc[p] \in Saving /\ using[p] = t
=============================================================================
