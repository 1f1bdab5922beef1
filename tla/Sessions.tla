------------------------------- MODULE Sessions -------------------------------
(***************************************************************************)
(* Sessions as internal/usecase/user_usecase.go keeps them in Redis.  A    *)
(* login issues a pair of tokens and writes two keys, one under the hash   *)
(* of each token; a refresh pops the refresh key, drops the old access key *)
(* and issues the next pair; a logout deletes what the client names.  Each *)
(* of these is several Redis calls with nothing around them: any call may  *)
(* fail, with or without having taken effect, any request may stop between *)
(* two of them, and other requests with the same tokens run in between.    *)
(***************************************************************************)
EXTENDS Integers, FiniteSets

CONSTANTS
    Pairs,      \* token pairs GenerateTokenPair can produce
    Workers,    \* request goroutines
    MaxFaults,  \* bound: failed calls and crashes
    NoPair

ASSUME SessionAssumption == NoPair \notin Pairs /\ MaxFaults \in Nat

VARIABLES
    access,     \* pairs with a live "session:" key
    refresh,    \* pairs with a live "refresh:" key (it names the pair's access key)
    origin,     \* for an issued pair, the pair of the login it descends from
    delivered,  \* pairs a client has received
    worker,     \* the request each worker is in the middle of
    exchanged,  \* history: pairs whose refresh token was popped
    closed,     \* history: pairs whose access token a successful logout came with
    revoked,    \* history: pairs whose refresh token a successful logout named
    ended,      \* history: logins the user or the clock has ended
    spared,     \* history: pairs whose refresh key alone the user or the clock took
    faults      \* faults so far

vars == <<access, refresh, origin, delivered, worker, exchanged, closed, revoked, ended, spared,
          faults>>
keys    == <<access, refresh>>
endings == <<closed, revoked, ended, spared>>
history == <<exchanged, endings>>

PCs == {"idle", "pop", "load", "drop", "issue", "setAccess", "setRefresh", "undo",
        "reply", "delAccess", "delRefresh"}

WorkerStates == [pc : PCs, old : Pairs \cup {NoPair}, new : Pairs \cup {NoPair},
                 named : Pairs \cup {NoPair}, failed : BOOLEAN]

(* Every live key belongs to a pair somebody was issued.                    *)
TypeOK ==
    /\ access \cup refresh \subseteq {p \in Pairs : origin[p] # NoPair}
    /\ origin \in [Pairs -> Pairs \cup {NoPair}]
    /\ delivered \subseteq Pairs
    /\ worker \in [Workers -> WorkerStates]
    /\ exchanged \subseteq Pairs /\ closed \subseteq Pairs /\ revoked \subseteq Pairs
    /\ ended \subseteq Pairs /\ spared \subseteq Pairs
    /\ faults \in 0..MaxFaults

Idle == [pc |-> "idle", old |-> NoPair, new |-> NoPair, named |-> NoPair, failed |-> FALSE]

Init ==
    /\ access = {} /\ refresh = {}
    /\ origin = [p \in Pairs |-> NoPair]
    /\ delivered = {}
    /\ worker = [w \in Workers |-> Idle]
    /\ exchanged = {} /\ closed = {} /\ revoked = {} /\ ended = {} /\ spared = {}
    /\ faults = 0

-----------------------------------------------------------------------------

Goto(w, s) == worker' = [worker EXCEPT ![w] = s]
At(w, p)   == worker[w].pc = p
Proceed(w, p) == Goto(w, [worker[w] EXCEPT !.pc = p])

Fault == faults < MaxFaults /\ faults' = faults + 1

(* A Redis call that succeeds changes its key; one that fails may have      *)
(* changed it all the same.                                                 *)
Added(S, p)   == S' = S \cup {p}
Removed(S, p) == S' = S \ {p}

-----------------------------------------------------------------------------
(* UserLogin and RefreshToken up to issueSession.                           *)

(* The password is right: a session is issued for a new login.              *)
UserLogin(w) ==
    /\ At(w, "idle")
    /\ Goto(w, [Idle EXCEPT !.pc = "issue"])
    /\ UNCHANGED <<keys, origin, delivered, history, faults>>

(* Nobody but GenerateTokenPair signs a token that ValidateToken accepts, so *)
(* a client can present those it was given.                                 *)
Presented(p) == p \in delivered

(* A client exchanges a refresh token it holds, perhaps twice at once.      *)
RefreshToken(w, p) ==
    /\ At(w, "idle")
    /\ Presented(p)
    /\ Goto(w, [Idle EXCEPT !.pc = "pop", !.old = p])
    /\ UNCHANGED <<keys, origin, delivered, history, faults>>

(* Mutant: the key is read and left to be deleted later.                    *)
PopReads(w) ==
    LET p == worker[w].old IN
    /\ At(w, "pop")
    /\ IF p \in refresh
       THEN exchanged' = exchanged \cup {p} /\ Proceed(w, "load")
       ELSE UNCHANGED exchanged /\ Goto(w, Idle)
    /\ UNCHANGED <<keys, origin, delivered, endings, faults>>

(* PopSessionByRefreshToken: read and delete in one call; an unknown token  *)
(* ends the request.                                                        *)
Pop(w) ==
    LET p == worker[w].old IN
    /\ At(w, "pop")
    /\ IF p \in refresh
       THEN exchanged' = exchanged \cup {p} /\ Proceed(w, "load")
       ELSE UNCHANGED exchanged /\ Goto(w, Idle)
    /\ Removed(refresh, p)
    /\ UNCHANGED <<access, origin, delivered, endings, faults>>

PopFails(w) ==
    LET p == worker[w].old IN
    /\ At(w, "pop")
    /\ Fault
    /\ Removed(refresh, p) \/ UNCHANGED refresh
    /\ Goto(w, Idle)
    /\ UNCHANGED <<access, origin, delivered, history>>

(* Mutant: the popped token is put back when the user cannot be read.       *)
LoadUserRestores(w) ==
    /\ At(w, "load")
    /\ \/ Proceed(w, "drop") /\ UNCHANGED <<refresh, faults>>
       \/ Goto(w, Idle) /\ Added(refresh, worker[w].old) /\ Fault
    /\ UNCHANGED <<access, origin, delivered, history>>

(* GetUserById; when it fails the token is already spent.                   *)
LoadUser(w) ==
    /\ At(w, "load")
    /\ \/ Proceed(w, "drop") /\ UNCHANGED faults
       \/ Goto(w, Idle) /\ Fault
    /\ UNCHANGED <<keys, origin, delivered, history>>

(* Mutant: the old access session is left to expire.                        *)
DropOldKeeps(w) ==
    /\ At(w, "drop")
    /\ Proceed(w, "issue")
    /\ UNCHANGED <<keys, origin, delivered, history, faults>>

(* The old access session is deleted; a failure is only logged.             *)
DropOld(w) ==
    /\ At(w, "drop")
    /\ \/ Removed(access, worker[w].old) /\ UNCHANGED faults
       \/ UNCHANGED access /\ Fault
    /\ Proceed(w, "issue")
    /\ UNCHANGED <<refresh, origin, delivered, history>>

-----------------------------------------------------------------------------
(* issueSession.                                                            *)

(* Mutant: an error of the signer is not looked at.                         *)
GenerateTokenPairBlank(w) ==
    /\ At(w, "issue")
    /\ Proceed(w, "setAccess")
    /\ UNCHANGED <<keys, origin, delivered, history, faults>>

GenerateTokenPair(w) ==
    /\ At(w, "issue")
    /\ \E n \in Pairs :
            /\ origin[n] = NoPair
            /\ origin' = [origin EXCEPT ![n] = IF worker[w].old = NoPair THEN n
                                               ELSE origin[worker[w].old]]
            /\ Goto(w, [worker[w] EXCEPT !.pc = "setAccess", !.new = n])
    /\ UNCHANGED <<keys, delivered, history, faults>>

SetAccess(w) ==
    /\ At(w, "setAccess")
    /\ \/ Added(access, worker[w].new) /\ Proceed(w, "setRefresh") /\ UNCHANGED faults
       \/ (Added(access, worker[w].new) \/ UNCHANGED access) /\ Goto(w, Idle) /\ Fault
    /\ UNCHANGED <<refresh, origin, delivered, history>>

SetRefresh(w) ==
    /\ At(w, "setRefresh")
    /\ \/ Added(refresh, worker[w].new) /\ Proceed(w, "reply") /\ UNCHANGED faults
       \/ (Added(refresh, worker[w].new) \/ UNCHANGED refresh) /\ Proceed(w, "undo") /\ Fault
    /\ UNCHANGED <<access, origin, delivered, history>>

(* The access session without a refresh session is deleted again; whether   *)
(* that works is not looked at.                                             *)
Undo(w) ==
    /\ At(w, "undo")
    /\ \/ Removed(access, worker[w].new) /\ UNCHANGED faults
       \/ UNCHANGED access /\ Fault
    /\ Goto(w, Idle)
    /\ UNCHANGED <<refresh, origin, delivered, history>>

(* The client gets the pair, or the answer is lost.                         *)
Reply(w) ==
    /\ At(w, "reply")
    /\ \/ delivered' = delivered \cup {worker[w].new} /\ UNCHANGED faults
       \/ UNCHANGED delivered /\ Fault
    /\ Goto(w, Idle)
    /\ UNCHANGED <<keys, origin, history>>

-----------------------------------------------------------------------------
(* Logout, behind Auth: the access session must exist when the request      *)
(* comes in.  The client may name a refresh token too, and nothing says it  *)
(* is that of the same pair; a text that is no refresh token has no key to  *)
(* delete.  (The device it may name as well is detached first, which is no  *)
(* matter of its session.)                                                  *)
Logout(w, p, q) ==
    /\ At(w, "idle")
    /\ Presented(p) /\ p \in access
    /\ q # NoPair => Presented(q)
    /\ Goto(w, [Idle EXCEPT !.pc = "delAccess", !.old = p, !.named = q])
    /\ UNCHANGED <<keys, origin, delivered, history, faults>>

(* Either deletion may fail; the other is tried all the same.               *)
DeleteAccess(w) ==
    LET last == worker[w].named = NoPair IN
    /\ At(w, "delAccess")
    /\ \/ /\ Removed(access, worker[w].old)
          /\ Goto(w, IF last THEN Idle ELSE [worker[w] EXCEPT !.pc = "delRefresh"])
          /\ closed' = IF last THEN closed \cup {worker[w].old} ELSE closed
          /\ UNCHANGED faults
       \/ /\ Removed(access, worker[w].old) \/ UNCHANGED access
          /\ Goto(w, IF last THEN Idle
                     ELSE [worker[w] EXCEPT !.pc = "delRefresh", !.failed = TRUE])
          /\ UNCHANGED closed
          /\ Fault
    /\ UNCHANGED <<refresh, origin, delivered, exchanged, revoked, ended, spared>>

(* The refresh key of the pair goes, and with it the login.  Its access     *)
(* session is deleted as well only if that is the one the logout came with. *)
RefreshGoes(q, p) ==
    /\ Removed(refresh, q)
    /\ ended' = ended \cup {origin[q]}
    /\ spared' = spared \cup (({q} \cap refresh \cap access) \ {p})

LoggedOut(w) ==
    /\ closed' = closed \cup {worker[w].old}
    /\ revoked' = revoked \cup {worker[w].named}

(* Mutant: the logout reports the result of its last deletion only.         *)
DeleteRefreshForgets(w) ==
    /\ At(w, "delRefresh")
    /\ \/ /\ RefreshGoes(worker[w].named, worker[w].old)
          /\ LoggedOut(w)
          /\ UNCHANGED faults
       \/ /\ \/ RefreshGoes(worker[w].named, worker[w].old)
             \/ UNCHANGED <<refresh, ended, spared>>
          /\ UNCHANGED <<closed, revoked>>
          /\ Fault
    /\ Goto(w, Idle)
    /\ UNCHANGED <<access, origin, delivered, exchanged>>

(* Mutant: a failed deletion of the refresh key is only logged.             *)
DeleteRefreshLogs(w) ==
    /\ At(w, "delRefresh")
    /\ \/ RefreshGoes(worker[w].named, worker[w].old) /\ UNCHANGED faults
       \/ UNCHANGED <<refresh, ended, spared>> /\ Fault
    /\ IF worker[w].failed THEN UNCHANGED <<closed, revoked>> ELSE LoggedOut(w)
    /\ Goto(w, Idle)
    /\ UNCHANGED <<access, origin, delivered, exchanged>>

DeleteRefresh(w) ==
    /\ At(w, "delRefresh")
    /\ \/ /\ RefreshGoes(worker[w].named, worker[w].old)
          /\ IF worker[w].failed THEN UNCHANGED <<closed, revoked>> ELSE LoggedOut(w)
          /\ UNCHANGED faults
       \/ /\ \/ RefreshGoes(worker[w].named, worker[w].old)
             \/ UNCHANGED <<refresh, ended, spared>>
          /\ UNCHANGED <<closed, revoked>>
          /\ Fault
    /\ Goto(w, Idle)
    /\ UNCHANGED <<access, origin, delivered, exchanged>>

-----------------------------------------------------------------------------
(* The clock, and crashes.                                                  *)

(* Either key's TTL may run out first: the configuration does not say that  *)
(* the access token's is the shorter one.                                   *)
Expire(p) ==
    /\ \/ p \in access /\ Removed(access, p) /\ UNCHANGED <<refresh, ended, spared>>
       \/ p \in refresh /\ RefreshGoes(p, NoPair) /\ UNCHANGED access
    /\ UNCHANGED <<origin, delivered, worker, exchanged, closed, revoked, faults>>

Abort(w) ==
    /\ ~At(w, "idle")
    /\ Fault
    /\ Goto(w, Idle)
    /\ UNCHANGED <<keys, origin, delivered, history>>

Step(w) ==
    \/ Pop(w) \/ PopFails(w) \/ LoadUser(w) \/ DropOld(w)
    \/ GenerateTokenPair(w) \/ SetAccess(w) \/ SetRefresh(w) \/ Undo(w) \/ Reply(w)
    \/ DeleteAccess(w) \/ DeleteRefresh(w)

Next ==
    \/ \E w \in Workers : UserLogin(w) \/ Step(w) \/ Abort(w)
    \/ \E w \in Workers, p \in Pairs : RefreshToken(w, p)
    \/ \E w \in Workers, p \in Pairs, q \in Pairs \cup {NoPair} : Logout(w, p, q)
    \/ \E p \in Pairs : Expire(p)

Spec == Init /\ [][Next]_vars

-----------------------------------------------------------------------------
(* Properties. *)

(* A login can be renewed by one refresh token at a time: however often a   *)
(* client sends the same token at once, one request pops it and one next    *)
(* pair comes of it.                                                        *)
OneRefreshToken ==
    \A p, q \in refresh : origin[p] = origin[q] => p = q

(* What a successful logout named is never valid again, whatever other      *)
(* requests with the same tokens were under way; a logout one of whose two  *)
(* deletions failed is not reported as successful.                          *)
LoggedOutStaysOut ==
    closed \cap access = {} /\ revoked \cap refresh = {}

(* After a logout that named a refresh token nobody had exchanged before,   *)
(* the login it belongs to cannot be renewed.                               *)
LogoutEndsLogin ==
    \A p \in revoked \ exchanged, q \in refresh : origin[p] # origin[q]

(* A spent refresh token stays spent: no failure or retry in a refresh puts  *)
(* the key back.                                                            *)
SpentStaysSpent ==
    [][\A p \in exchanged : p \notin refresh => p \notin refresh']_vars

Handles(w, p) ==
    \/ worker[w].pc \in {"load", "drop"} /\ worker[w].old = p
    \/ worker[w].pc \in {"setRefresh", "undo"} /\ worker[w].new = p

(* Access sessions that live on without a refresh token and with nobody     *)
(* about to delete them, where neither the clock nor a logout that came     *)
(* with another access token took the refresh token alone.                  *)
Stale == {p \in (access \ refresh) \ spared : \A w \in Workers : ~Handles(w, p)}

Renews(w, l) ==
    \/ worker[w].pc \in {"load", "drop", "issue"} /\ worker[w].old # NoPair
                                                  /\ origin[worker[w].old] = l
    \/ worker[w].pc \in {"setAccess", "setRefresh", "reply"} /\ origin[worker[w].new] = l

(* Logins a client believes in that can no longer be renewed, though nobody *)
(* logged out of them and they did not expire.                              *)
Lost == {l \in Pairs \ ended :
            /\ \E p \in delivered : origin[p] = l
            /\ \A p \in refresh : origin[p] = l => p \notin delivered
            /\ \A w \in Workers : ~Renews(w, l)}

(* Each failed call or crash costs at most one stale access session and at  *)
(* most one login; without faults there are none.                           *)
DamageBounded == Cardinality(Stale) <= faults /\ Cardinality(Lost) <= faults

=============================================================================
