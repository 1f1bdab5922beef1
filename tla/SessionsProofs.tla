---------------------------- MODULE SessionsProofs ----------------------------
(***************************************************************************)
(* What Sessions promises of its tokens holds for any number of token      *)
(* pairs, requests and faults.                                             *)
(***************************************************************************)
EXTENDS Sessions, FiniteSetTheorems, TLAPS

(* None of the properties is inductive.  What makes them hold is that the   *)
(* pairs of a login form a chain: of all pairs ever issued for it at most   *)
(* one has not been exchanged, and only the one request that exchanged the  *)
(* last pair can add the next.                                              *)

Issued == {p \in Pairs : origin[p] # NoPair}

HoldsOld == {"pop", "load", "drop", "delAccess", "delRefresh"}
HoldsNew == {"setAccess", "setRefresh", "undo", "reply"}

(* A request that has popped a refresh token and not yet issued the next.   *)
Renewing(s) == s.pc \in {"load", "drop", "issue"} /\ s.old # NoPair

Chains ==
    /\ \A p \in Issued : origin[p] \in Issued
    /\ exchanged \cup closed \cup revoked \subseteq delivered
    /\ delivered \subseteq Issued
    /\ refresh \cap exchanged = {}
    /\ \A p, q \in Issued \ exchanged : origin[p] = origin[q] => p = q

(* What a request in the middle of its calls may rely on.                   *)
KeyOK(s) ==
    /\ s.pc \in HoldsOld => s.old \in delivered
    /\ Renewing(s) =>
        /\ s.old \in delivered
        /\ \A p \in Issued : origin[p] = origin[s.old] => p \in exchanged
    /\ s.pc \in HoldsNew => s.new \in Issued \ delivered
    /\ s.pc = "delAccess" => s.named \in delivered \cup {NoPair}
    /\ s.pc = "delRefresh" => s.named \in delivered /\ (~s.failed => s.old \notin access)

(* Two requests that would renew the same login, or write the same keys.    *)
Clash(s, t) ==
    \/ Renewing(s) /\ Renewing(t) /\ origin[s.old] = origin[t.old]
    \/ s.pc \in HoldsNew /\ t.pc \in HoldsNew /\ s.new = t.new

Keys  == \A w \in Workers : KeyOK(worker[w])
Apart == \A v, w \in Workers : v # w => ~Clash(worker[v], worker[w])

IInv == TypeOK /\ Chains /\ Keys /\ Apart /\ LoggedOutStaysOut

LEMMA IdleOK == Idle \in WorkerStates /\ KeyOK(Idle) /\ KeyOK(Idle)' /\ \A t : ~Clash(Idle, t)
  BY DEF Idle, WorkerStates, PCs, KeyOK, HoldsOld, HoldsNew, Renewing, Clash

LEMMA ClashSymmetric == \A s, t : Clash(s, t) <=> Clash(t, s)
  BY DEF Clash

-----------------------------------------------------------------------------
(* The requests.                                                            *)

(* A step that issues and delivers nothing keeps the requests apart if the  *)
(* one that moved clashes with nobody it did not clash with before.         *)
LEMMA Moves ==
    ASSUME TypeOK, Keys, Apart, NEW w \in Workers, NEW s \in WorkerStates, Goto(w, s),
           UNCHANGED <<origin, delivered>>, exchanged \subseteq exchanged',
           access' \cap delivered \subseteq access,
           KeyOK(s)', \A v \in Workers \ {w} : ~Clash(s, worker[v])
    PROVE  worker' \in [Workers -> WorkerStates] /\ Keys' /\ Apart'
  <1>1. /\ worker' \in [Workers -> WorkerStates] /\ worker'[w] = s
        /\ \A v \in Workers \ {w} : worker'[v] = worker[v]
    BY DEF TypeOK, Goto
  <1>2. ASSUME NEW v \in Workers \ {w} PROVE KeyOK(worker[v])'
    BY <1>1 DEF Keys, KeyOK, Issued, HoldsOld, HoldsNew, Renewing
  <1>3. Keys'
    BY <1>1, <1>2 DEF Keys
  <1>4. ASSUME NEW u \in Workers, NEW v \in Workers, u # v
        PROVE  ~Clash(worker'[u], worker'[v])
    BY <1>1, <1>4, ClashSymmetric DEF Apart
  <1>5. \A a, b : Clash(a, b)' <=> Clash(a, b)
    BY DEF Clash, Renewing, HoldsNew
  <1>6. Apart'
    BY <1>4, <1>5 DEF Apart, Clash, Renewing, HoldsNew
  <1> QED
    BY <1>1, <1>3, <1>6

(* The same for a request that ends.                                        *)
LEMMA Ends ==
    ASSUME TypeOK, Keys, Apart, NEW w \in Workers, Goto(w, Idle),
           UNCHANGED <<origin, delivered>>, exchanged \subseteq exchanged',
           access' \cap delivered \subseteq access
    PROVE  worker' \in [Workers -> WorkerStates] /\ Keys' /\ Apart'
  BY IdleOK, Moves

-----------------------------------------------------------------------------
(* The keys.                                                                *)

(* Steps that delete keys and issue, deliver, exchange and revoke nothing.  *)
LEMMA KeysShrink ==
    ASSUME IInv, UNCHANGED <<origin, delivered, exchanged, closed, revoked>>,
           faults' \in 0..MaxFaults, access' \subseteq access, refresh' \subseteq refresh,
           ended' \subseteq Pairs, spared' \subseteq Pairs,
           worker' \in [Workers -> WorkerStates], Keys', Apart'
    PROVE  IInv'
  <1>1. TypeOK'
    BY DEF IInv, TypeOK
  <1>2. Chains'
    BY DEF IInv, Chains, Issued
  <1>3. LoggedOutStaysOut'
    BY DEF IInv, LoggedOutStaysOut
  <1> QED
    BY <1>1, <1>2, <1>3 DEF IInv

(* What a request finds in its own locals.                                  *)
LEMMA Own ==
    ASSUME IInv, NEW w \in Workers
    PROVE  worker[w] \in WorkerStates /\ KeyOK(worker[w]) /\ faults \in 0..MaxFaults
           /\ (Fault => faults' \in 0..MaxFaults)
           /\ ended \subseteq Pairs /\ spared \subseteq Pairs
  BY SessionAssumption DEF IInv, TypeOK, Keys, Fault

LEMMA UserLoginKeeps == ASSUME IInv, NEW w \in Workers, UserLogin(w) PROVE IInv'
  <1> DEFINE s == [Idle EXCEPT !.pc = "issue"]
  <1>1. s \in WorkerStates /\ KeyOK(s)' /\ \A t : ~Clash(s, t)
    BY DEF Idle, WorkerStates, PCs, KeyOK, HoldsOld, HoldsNew, Renewing, Clash
  <1>2. worker' \in [Workers -> WorkerStates] /\ Keys' /\ Apart'
    BY <1>1, Moves DEF UserLogin, keys, history, endings, IInv
  <1> QED
    BY <1>2, Own, KeysShrink DEF UserLogin, keys, history, endings

LEMMA RefreshTokenKeeps ==
    ASSUME IInv, NEW w \in Workers, NEW p \in Pairs, RefreshToken(w, p) PROVE IInv'
  <1> DEFINE s == [Idle EXCEPT !.pc = "pop", !.old = p]
  <1>1. s \in WorkerStates /\ KeyOK(s)' /\ \A t : ~Clash(s, t)
    BY DEF RefreshToken, Presented, Idle, WorkerStates, PCs, KeyOK, HoldsOld, HoldsNew,
           Renewing, Clash
  <1>2. worker' \in [Workers -> WorkerStates] /\ Keys' /\ Apart'
    BY <1>1, Moves DEF RefreshToken, keys, history, endings, IInv
  <1> QED
    BY <1>2, Own, KeysShrink DEF RefreshToken, keys, history, endings

LEMMA PopFailsKeeps == ASSUME IInv, NEW w \in Workers, PopFails(w) PROVE IInv'
  <1>1. worker' \in [Workers -> WorkerStates] /\ Keys' /\ Apart'
    BY Ends DEF PopFails, history, endings, IInv
  <1> QED
    BY <1>1, Own, KeysShrink DEF PopFails, history, endings, Removed

LEMMA LoadUserKeeps == ASSUME IInv, NEW w \in Workers, LoadUser(w) PROVE IInv'
  <1>1. PICK s \in WorkerStates : s = [worker[w] EXCEPT !.pc = "drop"]
    BY Own DEF WorkerStates, PCs
  <1>2. KeyOK(s)'
    BY <1>1, Own DEF LoadUser, keys, history, endings, At, WorkerStates, KeyOK, HoldsOld, HoldsNew,
                     Renewing, Issued
  <1>3. \A v \in Workers \ {w} : ~Clash(s, worker[v])
    BY <1>1, Own DEF LoadUser, At, WorkerStates, HoldsNew, Renewing, Clash, IInv, Apart
  <1>4. worker' \in [Workers -> WorkerStates] /\ Keys' /\ Apart'
    <2>1. CASE Proceed(w, "drop")
      BY <1>1, <1>2, <1>3, <2>1, Moves DEF LoadUser, Proceed, keys, history, endings, IInv
    <2>2. CASE Goto(w, Idle)
      BY <2>2, Ends DEF LoadUser, keys, history, endings, IInv
    <2> QED
      BY <2>1, <2>2 DEF LoadUser
  <1> QED
    BY <1>4, Own, KeysShrink DEF LoadUser, keys, history, endings

LEMMA OldDropped == ASSUME IInv, NEW w \in Workers, DropOld(w) PROVE IInv'
  <1>0. access' \subseteq access /\ faults' \in 0..MaxFaults
    BY Own DEF DropOld, Removed
  <1>1. PICK s \in WorkerStates : s = [worker[w] EXCEPT !.pc = "issue"]
    BY Own DEF WorkerStates, PCs
  <1>2. KeyOK(s)'
    BY <1>1, Own DEF DropOld, history, endings, At, WorkerStates, KeyOK, HoldsOld, HoldsNew,
                     Renewing, Issued
  <1>3. \A v \in Workers \ {w} : ~Clash(s, worker[v])
    BY <1>1, Own DEF DropOld, At, WorkerStates, HoldsNew, Renewing, Clash, IInv, Apart
  <1>4. worker' \in [Workers -> WorkerStates] /\ Keys' /\ Apart'
    BY <1>0, <1>1, <1>2, <1>3, Moves DEF DropOld, Proceed, history, endings, IInv
  <1> QED
    BY <1>0, <1>4, Own, KeysShrink DEF DropOld, history, endings

(* Pop: the worker becomes the only one that may renew the login.           *)
LEMMA PopKeeps == ASSUME IInv, NEW w \in Workers, Pop(w) PROVE IInv'
  <1>0. PICK p \in delivered : p = worker[w].old
    BY Own DEF Pop, At, KeyOK, HoldsOld
  <1>1. p \in Issued /\ delivered \subseteq Pairs /\ refresh' \subseteq refresh
    BY <1>0 DEF Pop, Removed, IInv, Chains, Issued
  <1>2. CASE p \notin refresh
    <2>1. Goto(w, Idle) /\ UNCHANGED exchanged
      BY <1>0, <1>2 DEF Pop
    <2>2. worker' \in [Workers -> WorkerStates] /\ Keys' /\ Apart'
      BY <2>1, Ends DEF Pop, endings, IInv
    <2> QED
      BY <1>1, <2>1, <2>2, Own, KeysShrink DEF Pop, endings
  <1>3. CASE p \in refresh
    <2>0. PICK s \in WorkerStates : s = [worker[w] EXCEPT !.pc = "load"]
      BY Own DEF WorkerStates, PCs
    <2>1. exchanged' = exchanged \cup {p} /\ Goto(w, s) /\ s.old = p /\ s.pc = "load"
      BY <1>0, <1>3, <2>0, Own DEF Pop, Proceed, WorkerStates
    <2>2. \A q \in Issued : origin[q] = origin[p] => q \in exchanged'
      BY <1>1, <1>3, <2>1 DEF IInv, Chains
    <2>3. KeyOK(s)'
      BY <1>0, <2>1, <2>2 DEF Pop, endings, KeyOK, HoldsOld, HoldsNew, Renewing, Issued
    <2>4. ASSUME NEW v \in Workers \ {w} PROVE ~Clash(s, worker[v])
      <3>1. p \notin exchanged
        BY <1>3 DEF IInv, Chains
      <3>2. KeyOK(worker[v])
        BY Own
      <3> QED
        BY <1>1, <2>1, <3>1, <3>2 DEF Clash, Renewing, HoldsNew, KeyOK
    <2>5. worker' \in [Workers -> WorkerStates] /\ Keys' /\ Apart'
      BY <2>1, <2>3, <2>4, Moves DEF Pop, endings, IInv
    <2>6. TypeOK'
      BY <1>1, <2>1, <2>5 DEF Pop, endings, IInv, TypeOK
    <2>7. Chains'
      BY <1>0, <1>1, <2>1 DEF Pop, endings, Removed, IInv, Chains, Issued
    <2>8. LoggedOutStaysOut'
      BY <1>1 DEF Pop, endings, IInv, LoggedOutStaysOut
    <2> QED
      BY <2>5, <2>6, <2>7, <2>8 DEF IInv
  <1> QED
    BY <1>2, <1>3

(* GenerateTokenPair: a pair nobody knows is added to the end of the chain. *)
LEMMA GenerateTokenPairKeeps ==
    ASSUME IInv, NEW w \in Workers, GenerateTokenPair(w) PROVE IInv'
  <1>0. PICK n \in Pairs :
            /\ origin[n] = NoPair
            /\ origin' = [origin EXCEPT ![n] = IF worker[w].old = NoPair THEN n
                                               ELSE origin[worker[w].old]]
            /\ Goto(w, [worker[w] EXCEPT !.pc = "setAccess", !.new = n])
    BY DEF GenerateTokenPair
  <1>1. PICK s \in WorkerStates : s = [worker[w] EXCEPT !.pc = "setAccess", !.new = n]
    BY Own DEF WorkerStates, PCs
  <1>2. /\ worker[w].pc = "issue" /\ s.pc = "setAccess" /\ s.new = n
        /\ UNCHANGED <<access, refresh, delivered, exchanged, closed, revoked, ended, spared,
                       faults>>
    BY <1>1, Own DEF GenerateTokenPair, At, keys, history, endings, WorkerStates
  <1>3. /\ \A p \in Pairs \ {n} : origin'[p] = origin[p]
        /\ Issued' = Issued \cup {n} /\ n \notin Issued
        /\ origin'[n] \in Issued'
        /\ origin' \in [Pairs -> Pairs \cup {NoPair}]
        /\ \A p \in Issued : origin'[p] = origin[p]
    <2>1. CASE worker[w].old = NoPair
      BY <1>0, <2>1, SessionAssumption DEF Issued, IInv, TypeOK
    <2>2. CASE worker[w].old # NoPair
      <3>1. worker[w].old \in Issued
        BY <1>2, <2>2, Own DEF KeyOK, Renewing, IInv, Chains
      <3>2. origin[worker[w].old] \in Issued /\ worker[w].old # n
        BY <1>0, <3>1 DEF IInv, Chains, Issued
      <3> QED
        BY <1>0, <2>2, <3>1, <3>2, SessionAssumption DEF Issued, IInv, TypeOK
    <2> QED
      BY <2>1, <2>2
  <1>4. /\ worker' \in [Workers -> WorkerStates] /\ worker'[w] = s
        /\ \A v \in Workers \ {w} : worker'[v] = worker[v]
    BY <1>0, <1>1 DEF IInv, TypeOK, Goto
  <1>5. n \notin delivered /\ n \notin exchanged /\ delivered \subseteq Issued
    BY <1>3 DEF IInv, Chains
  <1>6. \A p \in Issued \ exchanged : origin'[p] # origin'[n]
    <2>1. CASE worker[w].old = NoPair
      BY <1>0, <1>3, <2>1 DEF IInv, Chains, TypeOK
    <2>2. CASE worker[w].old # NoPair
      <3>1. worker[w].old \in Issued
            /\ \A p \in Issued : origin[p] = origin[worker[w].old] => p \in exchanged
        BY <1>2, <2>2, Own DEF KeyOK, Renewing, IInv, Chains
      <3> QED
        BY <1>0, <1>3, <2>2, <3>1 DEF IInv, TypeOK
    <2> QED
      BY <2>1, <2>2
  <1>7. TypeOK'
    BY <1>2, <1>3, <1>4 DEF IInv, TypeOK, Issued
  <1>8. Chains'
    BY <1>2, <1>3, <1>5, <1>6 DEF IInv, Chains
  <1>9. ASSUME NEW v \in Workers PROVE KeyOK(worker[v])' 
    <2>1. CASE v = w
      BY <1>2, <1>3, <1>4, <1>5, <2>1 DEF KeyOK, HoldsOld, HoldsNew, Renewing
    <2>2. CASE v # w
      <3>1. PICK t : t = worker[v] /\ worker'[v] = t /\ KeyOK(t) /\ ~Clash(worker[w], t)
        BY <1>4, <2>2, Own DEF IInv, Apart
      <3>2. Renewing(t) => t.old \in Issued
        BY <1>5, <3>1 DEF KeyOK
      <3>3. Renewing(t) => origin'[n] # origin[t.old]
        <4>1. CASE worker[w].old = NoPair
          BY <1>0, <1>3, <3>2, <4>1 DEF IInv, Chains, TypeOK
        <4>2. CASE worker[w].old # NoPair
          BY <1>0, <1>2, <3>1, <4>2 DEF Clash, Renewing, IInv, TypeOK
        <4> QED
          BY <4>1, <4>2
      <3>4. KeyOK(t)'
        BY <1>2, <1>3, <3>1, <3>2, <3>3 DEF KeyOK, HoldsOld, HoldsNew, Renewing
      <3> QED
        BY <3>1, <3>4
    <2> QED
      BY <2>1, <2>2
  <1>10. ASSUME NEW u \in Workers, NEW v \in Workers, u # v
         PROVE  ~Clash(worker[u], worker[v])'
    <2>1. CASE u # w /\ v # w
      <3>1. PICK x, y : /\ x = worker[u] /\ y = worker[v] /\ worker'[u] = x /\ worker'[v] = y
                        /\ ~Clash(x, y) /\ KeyOK(x) /\ KeyOK(y)
        BY <1>4, <1>10, <2>1, Own DEF IInv, Apart
      <3>2. ~Clash(x, y)'
        BY <1>3, <1>5, <3>1 DEF Clash, KeyOK, Renewing
      <3> QED
        BY <3>1, <3>2
    <2>2. ASSUME NEW x \in Workers \ {w} PROVE ~Clash(s, worker[x])'
      <3>1. worker'[x].pc \in HoldsNew => worker'[x].new # n
        BY <1>3, <1>4, Own DEF KeyOK
      <3> QED
        BY <1>2, <3>1 DEF Clash, Renewing
    <2> QED
      BY <1>4, <1>10, <2>1, <2>2 DEF Clash, Renewing, HoldsNew
  <1>11. LoggedOutStaysOut'
    BY <1>2 DEF IInv, LoggedOutStaysOut
  <1> QED
    BY <1>7, <1>8, <1>9, <1>10, <1>11 DEF IInv, Keys, Apart

-----------------------------------------------------------------------------
(* The keys of a new pair, which no client knows yet.                       *)

LEMMA KeysOfNew ==
    ASSUME IInv, NEW n \in Issued \ delivered,
           UNCHANGED <<origin, delivered, history>>, faults' \in 0..MaxFaults,
           access' \subseteq access \cup {n}, refresh' \subseteq refresh \cup {n},
           worker' \in [Workers -> WorkerStates], Keys', Apart'
    PROVE  IInv'
  <1>1. TypeOK'
    BY DEF IInv, TypeOK, Issued, history, endings
  <1>2. Chains'
    BY DEF IInv, Chains, Issued, history, endings
  <1>3. LoggedOutStaysOut'
    BY DEF IInv, Chains, LoggedOutStaysOut, history, endings
  <1> QED
    BY <1>1, <1>2, <1>3 DEF IInv

(* A request that goes on with its new pair, or ends.                       *)
LEMMA NewMoves ==
    ASSUME IInv, NEW w \in Workers, worker[w].pc \in HoldsNew, NEW c \in HoldsNew,
           Proceed(w, c), UNCHANGED <<origin, delivered, exchanged>>,
           access' \cap delivered \subseteq access
    PROVE  worker' \in [Workers -> WorkerStates] /\ Keys' /\ Apart'
  <1>1. PICK s \in WorkerStates : s = [worker[w] EXCEPT !.pc = c]
    BY Own DEF WorkerStates, PCs, HoldsNew
  <1>2. s.pc = c /\ s.new = worker[w].new
    BY <1>1, Own DEF WorkerStates
  <1>3. KeyOK(s)'
    BY <1>2, Own DEF KeyOK, HoldsOld, HoldsNew, Renewing, Issued
  <1>4. \A v \in Workers \ {w} : ~Clash(s, worker[v])
    BY <1>2 DEF HoldsNew, Renewing, Clash, IInv, Apart
  <1> QED
    BY <1>1, <1>3, <1>4, Moves DEF Proceed, IInv

LEMMA SetAccessKeeps == ASSUME IInv, NEW w \in Workers, SetAccess(w) PROVE IInv'
  <1>1. worker[w].pc \in HoldsNew /\ worker[w].new \in Issued \ delivered
        /\ access' \subseteq access \cup {worker[w].new} /\ faults' \in 0..MaxFaults
    BY Own DEF SetAccess, At, KeyOK, HoldsNew, Added
  <1>2. worker' \in [Workers -> WorkerStates] /\ Keys' /\ Apart'
    <2>1. CASE Proceed(w, "setRefresh")
      BY <1>1, <2>1, NewMoves DEF SetAccess, HoldsNew, history, endings
    <2>2. CASE Goto(w, Idle)
      BY <1>1, <2>2, Ends DEF SetAccess, history, endings, IInv
    <2> QED
      BY <2>1, <2>2 DEF SetAccess
  <1> QED
    BY <1>1, <1>2, KeysOfNew DEF SetAccess, history, endings

LEMMA SetRefreshKeeps == ASSUME IInv, NEW w \in Workers, SetRefresh(w) PROVE IInv'
  <1>1. worker[w].pc \in HoldsNew /\ worker[w].new \in Issued \ delivered
        /\ refresh' \subseteq refresh \cup {worker[w].new} /\ faults' \in 0..MaxFaults
    BY Own DEF SetRefresh, At, KeyOK, HoldsNew, Added
  <1>2. worker' \in [Workers -> WorkerStates] /\ Keys' /\ Apart'
    <2>1. CASE Proceed(w, "reply")
      BY <1>1, <2>1, NewMoves DEF SetRefresh, HoldsNew, history, endings
    <2>2. CASE Proceed(w, "undo")
      BY <1>1, <2>2, NewMoves DEF SetRefresh, HoldsNew, history, endings
    <2> QED
      BY <2>1, <2>2 DEF SetRefresh
  <1> QED
    BY <1>1, <1>2, KeysOfNew DEF SetRefresh, history, endings

LEMMA UndoKeeps == ASSUME IInv, NEW w \in Workers, Undo(w) PROVE IInv'
  <1>1. access' \subseteq access /\ faults' \in 0..MaxFaults
    BY Own DEF Undo, Removed
  <1>2. worker' \in [Workers -> WorkerStates] /\ Keys' /\ Apart'
    BY <1>1, Ends DEF Undo, history, endings, IInv
  <1> QED
    BY <1>1, <1>2, Own, KeysShrink DEF Undo, history, endings

(* The pair becomes the client's; no other request is about to write it.    *)
LEMMA ReplyKeeps == ASSUME IInv, NEW w \in Workers, Reply(w) PROVE IInv'
  <1>0. PICK n \in Issued \ delivered : n = worker[w].new
    BY Own DEF Reply, At, KeyOK, HoldsNew
  <1>1. /\ worker[w].pc = "reply" /\ Goto(w, Idle)
        /\ UNCHANGED <<access, refresh, origin, exchanged, closed, revoked, ended, spared>>
        /\ faults' \in 0..MaxFaults
        /\ delivered \subseteq delivered' /\ delivered' \subseteq delivered \cup {n}
    BY <1>0, Own DEF Reply, At, keys, history, endings
  <1>2. /\ worker' \in [Workers -> WorkerStates] /\ worker'[w] = Idle
        /\ \A v \in Workers \ {w} : worker'[v] = worker[v]
    BY <1>1, IdleOK DEF IInv, TypeOK, Goto
  <1>3. ASSUME NEW v \in Workers PROVE KeyOK(worker[v])'
    <2>1. CASE v = w
      BY <1>2, <2>1 DEF KeyOK, Idle, HoldsOld, HoldsNew, Renewing
    <2>2. CASE v # w
      <3>1. KeyOK(worker[v]) /\ (worker[v].pc \in HoldsNew => worker[v].new # n)
        BY <1>0, <1>1, <2>2, Own DEF IInv, Apart, Clash, HoldsNew
      <3>2. worker'[v] = worker[v] /\ Issued' = Issued
        BY <1>1, <1>2, <2>2 DEF Issued
      <3> QED
        BY <1>1, <3>1, <3>2 DEF KeyOK, Renewing
    <2> QED
      BY <2>1, <2>2
  <1>4. Apart'
    <2> SUFFICES ASSUME NEW u \in Workers, NEW v \in Workers, u # v
                 PROVE  ~Clash(worker[u], worker[v])'
      BY DEF Apart
    <2>1. ~Clash(worker'[u], worker'[v])
      <3>1. CASE u = w
        BY <1>2, <3>1, IdleOK
      <3>2. CASE v = w
        BY <1>2, <3>2, IdleOK, ClashSymmetric
      <3>3. CASE u # w /\ v # w
        BY <1>2, <3>3 DEF IInv, Apart
      <3> QED
        BY <3>1, <3>2, <3>3
    <2> QED
      BY <1>1, <2>1 DEF Clash, Renewing
  <1>5. TypeOK'
    BY <1>0, <1>1, <1>2 DEF IInv, TypeOK, Issued
  <1>6. Chains'
    BY <1>0, <1>1 DEF IInv, Chains, Issued
  <1>7. LoggedOutStaysOut'
    BY <1>1 DEF IInv, LoggedOutStaysOut
  <1> QED
    BY <1>3, <1>4, <1>5, <1>6, <1>7 DEF IInv, Keys

-----------------------------------------------------------------------------
(* Logout.                                                                  *)

LEMMA LogoutKeeps ==
    ASSUME IInv, NEW w \in Workers, NEW p \in Pairs, NEW q \in Pairs \cup {NoPair}, Logout(w, p, q)
    PROVE  IInv'
  <1> DEFINE s == [Idle EXCEPT !.pc = "delAccess", !.old = p, !.named = q]
  <1>1. s \in WorkerStates /\ KeyOK(s)' /\ \A t : ~Clash(s, t)
    BY DEF Logout, Presented, Idle, WorkerStates, PCs, KeyOK, HoldsOld, HoldsNew, Renewing,
           Clash
  <1>2. worker' \in [Workers -> WorkerStates] /\ Keys' /\ Apart'
    BY <1>1, Moves DEF Logout, keys, history, endings, IInv
  <1> QED
    BY <1>2, Own, KeysShrink DEF Logout, keys, history, endings

(* After a deletion that is known to have worked the access key is gone.    *)
LEMMA DeleteAccessKeeps == ASSUME IInv, NEW w \in Workers, DeleteAccess(w) PROVE IInv'
  <1>0. /\ access' \subseteq access /\ faults' \in 0..MaxFaults
        /\ UNCHANGED <<refresh, origin, delivered, exchanged, revoked, ended, spared>>
    BY Own DEF DeleteAccess, Removed
  <1>1. /\ worker[w].old \in delivered /\ worker[w].named \in delivered \cup {NoPair}
        /\ delivered \subseteq Issued
    BY Own DEF DeleteAccess, At, KeyOK, HoldsOld, IInv, Chains
  <1>2. closed' = closed
        \/ (closed' = closed \cup {worker[w].old} /\ worker[w].old \notin access')
    BY DEF DeleteAccess, Removed
  <1>3. ASSUME worker' \in [Workers -> WorkerStates], Keys', Apart' PROVE IInv'
    <2>1. TypeOK'
      BY <1>0, <1>1, <1>2, <1>3 DEF IInv, TypeOK, Issued
    <2>2. Chains'
      BY <1>0, <1>1, <1>2 DEF IInv, Chains, Issued
    <2>3. LoggedOutStaysOut'
      BY <1>0, <1>2 DEF IInv, LoggedOutStaysOut
    <2> QED
      BY <1>3, <2>1, <2>2, <2>3 DEF IInv
  <1>4. CASE Goto(w, Idle)
    BY <1>0, <1>3, <1>4, Ends DEF IInv
  <1>5. ASSUME NEW s \in WorkerStates, Goto(w, s), s.pc = "delRefresh", s.old = worker[w].old,
               s.named = worker[w].named, s.named # NoPair, s.failed \/ s.old \notin access'
        PROVE  IInv'
    <2>1. KeyOK(s)'
      BY <1>0, <1>1, <1>5 DEF KeyOK, HoldsOld, HoldsNew, Renewing
    <2>2. \A v \in Workers \ {w} : ~Clash(s, worker[v])
      BY <1>5 DEF Clash, HoldsNew, Renewing
    <2> QED
      BY <1>0, <1>3, <1>5, <2>1, <2>2, Moves DEF IInv
  <1>6. CASE /\ worker[w].named # NoPair /\ Removed(access, worker[w].old)
             /\ Goto(w, [worker[w] EXCEPT !.pc = "delRefresh"])
    <2>1. PICK s \in WorkerStates : s = [worker[w] EXCEPT !.pc = "delRefresh"]
      BY Own DEF WorkerStates, PCs
    <2>2. /\ s.pc = "delRefresh" /\ s.old = worker[w].old /\ s.named = worker[w].named
          /\ Goto(w, s) /\ s.old \notin access'
      BY <1>6, <2>1, Own DEF WorkerStates, Removed
    <2> QED
      BY <1>5, <1>6, <2>2
  <1>7. CASE /\ worker[w].named # NoPair
             /\ Goto(w, [worker[w] EXCEPT !.pc = "delRefresh", !.failed = TRUE])
    <2>1. PICK s \in WorkerStates :
            s = [worker[w] EXCEPT !.pc = "delRefresh", !.failed = TRUE]
      BY Own DEF WorkerStates, PCs
    <2>2. /\ s.pc = "delRefresh" /\ s.old = worker[w].old /\ s.named = worker[w].named
          /\ Goto(w, s) /\ s.failed
      BY <1>7, <2>1, Own DEF WorkerStates
    <2> QED
      BY <1>5, <1>7, <2>2
  <1> QED
    BY <1>4, <1>6, <1>7 DEF DeleteAccess

(* What the user or the clock ends are logins.                              *)
LEMMA OriginOfIssued == ASSUME IInv, NEW p \in Issued PROVE origin[p] \in Pairs
  BY DEF IInv, Chains, Issued

(* The logout reports success only if both keys are gone.                   *)
LEMMA DeleteRefreshKeeps == ASSUME IInv, NEW w \in Workers, DeleteRefresh(w) PROVE IInv'
  <1>0. PICK p \in delivered, q \in delivered : p = worker[w].old /\ q = worker[w].named
    BY Own DEF DeleteRefresh, At, KeyOK, HoldsOld
  <1>1. p \in Issued /\ q \in Issued /\ q \in Pairs /\ origin[q] \in Pairs
    BY <1>0, OriginOfIssued DEF IInv, Chains, Issued
  <1>2. /\ faults' \in 0..MaxFaults
        /\ ended' \subseteq Pairs /\ spared' \subseteq Pairs /\ refresh' \subseteq refresh
        /\ UNCHANGED <<access, origin, delivered, exchanged>> /\ Goto(w, Idle)
    BY <1>0, <1>1, Own DEF DeleteRefresh, RefreshGoes, Removed
  <1>3. worker' \in [Workers -> WorkerStates] /\ Keys' /\ Apart'
    BY <1>2, Ends DEF IInv
  <1>4. \/ closed' = closed /\ revoked' = revoked
        \/ /\ closed' = closed \cup {p} /\ p \notin access
           /\ revoked' = revoked \cup {q} /\ q \notin refresh'
    BY <1>0, Own DEF DeleteRefresh, LoggedOut, RefreshGoes, Removed, KeyOK, At
  <1>5. TypeOK'
    BY <1>1, <1>2, <1>3, <1>4 DEF IInv, TypeOK, Issued
  <1>6. Chains'
    BY <1>0, <1>2, <1>4 DEF IInv, Chains, Issued
  <1>7. LoggedOutStaysOut'
    BY <1>2, <1>4 DEF IInv, LoggedOutStaysOut
  <1> QED
    BY <1>3, <1>5, <1>6, <1>7 DEF IInv

-----------------------------------------------------------------------------
(* The clock, and crashes.                                                  *)

LEMMA ExpireKeeps == ASSUME IInv, NEW p \in Pairs, Expire(p) PROVE IInv'
  <1>1. /\ access' \subseteq access /\ refresh' \subseteq refresh
        /\ UNCHANGED <<origin, delivered, worker, exchanged, closed, revoked, faults>>
    BY DEF Expire, RefreshGoes, Removed
  <1>2. ended' \subseteq Pairs /\ spared' \subseteq Pairs
    <2>1. p \in refresh => p \in Issued
      BY DEF IInv, TypeOK, Issued
    <2> QED
      BY <2>1, OriginOfIssued DEF Expire, RefreshGoes, IInv, TypeOK
  <1>3. worker' \in [Workers -> WorkerStates] /\ faults' \in 0..MaxFaults /\ Apart'
    BY <1>1 DEF IInv, TypeOK, Apart, Clash, Renewing
  <1>4. ASSUME NEW v \in Workers PROVE KeyOK(worker[v])'
    BY <1>1, Own DEF KeyOK, Renewing, Issued
  <1> QED
    BY <1>1, <1>2, <1>3, <1>4, KeysShrink DEF Keys

LEMMA AbortKeeps == ASSUME IInv, NEW w \in Workers, Abort(w) PROVE IInv'
  <1>1. worker' \in [Workers -> WorkerStates] /\ Keys' /\ Apart'
    BY Ends DEF Abort, keys, history, endings, IInv
  <1> QED
    BY <1>1, Own, KeysShrink DEF Abort, keys, history, endings

-----------------------------------------------------------------------------
(* The invariant.                                                           *)

LEMMA InitIInv == Init => IInv
  <1> SUFFICES ASSUME Init PROVE IInv
    OBVIOUS
  <1>1. TypeOK
    BY IdleOK, SessionAssumption DEF Init, TypeOK
  <1>2. Chains /\ LoggedOutStaysOut
    BY DEF Init, Chains, Issued, LoggedOutStaysOut
  <1>3. Keys /\ Apart
    BY IdleOK DEF Init, Keys, Apart
  <1> QED
    BY <1>1, <1>2, <1>3 DEF IInv

LEMMA StepIInv == IInv /\ [Next]_vars => IInv'
  <1> SUFFICES ASSUME IInv, [Next]_vars PROVE IInv'
    OBVIOUS
  <1>1. ASSUME NEW w \in Workers, Step(w) PROVE IInv'
    BY <1>1, PopKeeps, PopFailsKeeps, LoadUserKeeps, OldDropped, GenerateTokenPairKeeps,
       SetAccessKeeps, SetRefreshKeeps, UndoKeeps, ReplyKeeps, DeleteAccessKeeps,
       DeleteRefreshKeeps DEF Step
  <1>2. ASSUME NEW w \in Workers, UserLogin(w) \/ Abort(w) PROVE IInv'
    BY <1>2, UserLoginKeeps, AbortKeeps
  <1>3. ASSUME NEW w \in Workers, NEW p \in Pairs, RefreshToken(w, p) PROVE IInv'
    BY <1>3, RefreshTokenKeeps
  <1>4. ASSUME NEW w \in Workers, NEW p \in Pairs, NEW q \in Pairs \cup {NoPair}, Logout(w, p, q)
        PROVE  IInv'
    BY <1>4, LogoutKeeps
  <1>5. ASSUME NEW p \in Pairs, Expire(p) PROVE IInv'
    BY <1>5, ExpireKeeps
  <1>6. CASE UNCHANGED vars
    <2>1. TypeOK' /\ Chains' /\ LoggedOutStaysOut'
      BY <1>6 DEF vars, IInv, TypeOK, Chains, Issued, LoggedOutStaysOut
    <2>2. Keys' /\ Apart'
      BY <1>6 DEF vars, IInv, Keys, Apart, KeyOK, Clash, Renewing, Issued
    <2> QED
      BY <2>1, <2>2 DEF IInv
  <1> QED
    BY <1>1, <1>2, <1>3, <1>4, <1>5, <1>6 DEF Next

LEMMA Inductive == Spec => []IInv
  BY InitIInv, StepIInv, PTL DEF Spec

-----------------------------------------------------------------------------
(* What it gives.                                                           *)

(* Whatever fails or stops between two Redis calls, a live key belongs to a *)
(* pair that was issued, and every request is at a point of its handler     *)
(* with the tokens that point needs.                                        *)
THEOREM TypeCorrect == Spec => []TypeOK
  <1>1. IInv => TypeOK
    BY DEF IInv
  <1> QED
    BY <1>1, Inductive, PTL

(* However many requests send the same refresh token at once, a login has   *)
(* at most one live refresh key.                                            *)
THEOREM OneRefreshTokenHolds == Spec => []OneRefreshToken
  <1>1. IInv => OneRefreshToken
    BY DEF IInv, TypeOK, Chains, Issued, OneRefreshToken
  <1> QED
    BY <1>1, Inductive, PTL

(* No request that was under way at a successful logout brings back a key   *)
(* the logout deleted, be the tokens it named of one pair or of two.        *)
THEOREM LoggedOutStaysOutHolds == Spec => []LoggedOutStaysOut
  <1>1. IInv => LoggedOutStaysOut
    BY DEF IInv
  <1> QED
    BY <1>1, Inductive, PTL

(* A successful logout that names the current refresh token of a login,     *)
(* whatever access token it comes with, leaves no key by which that login   *)
(* could be renewed.                                                        *)
THEOREM LogoutEndsLoginHolds == Spec => []LogoutEndsLogin
  <1>1. IInv => LogoutEndsLogin
    BY DEF IInv, TypeOK, Chains, Issued, LoggedOutStaysOut, LogoutEndsLogin
  <1> QED
    BY <1>1, Inductive, PTL

(* Once popped, a refresh token is never accepted again.                    *)
THEOREM SpentStaysSpentHolds == Spec => SpentStaysSpent
  <1>1. IInv /\ IInv' /\ [Next]_vars =>
            [\A p \in exchanged : p \notin refresh => p \notin refresh']_vars
    <2> SUFFICES ASSUME IInv, IInv', [Next]_vars, NEW p \in exchanged PROVE p \notin refresh'
      OBVIOUS
    <2>1. exchanged \subseteq exchanged'
      BY DEF Next, Step, vars, history, endings, UserLogin, RefreshToken, Pop, PopFails,
             LoadUser, DropOld,
             GenerateTokenPair, SetAccess, SetRefresh, Undo, Reply, Logout, DeleteAccess,
             DeleteRefresh, Expire, Abort
    <2> QED
      BY <2>1 DEF IInv, Chains
  <1> QED
    BY <1>1, Inductive, PTL DEF Spec, SpentStaysSpent

-----------------------------------------------------------------------------
(* What faults may cost.  A step that is no fault leaves no access session  *)
(* stale and no login lost that was not before, and a fault adds one of     *)
(* each at most.  A logout that failed to delete an access key makes it     *)
(* stale only when it goes on to delete the refresh key, so such a key is   *)
(* counted from the failure on.                                             *)

Tends(s, p) ==
    \/ s.pc \in {"load", "drop"} /\ s.old = p
    \/ s.pc \in {"setRefresh", "undo"} /\ s.new = p

Forsakes(s, p) == s.pc = "delRefresh" /\ s.failed /\ s.old = p

Strays ==
    {p \in access \ spared :
        \/ p \notin refresh /\ \A w \in Workers : ~Tends(worker[w], p)
        \/ \E w \in Workers : Forsakes(worker[w], p)}

Continues(s, l) ==
    \/ s.pc \in {"load", "drop", "issue"} /\ s.old # NoPair /\ origin[s.old] = l
    \/ s.pc \in {"setAccess", "setRefresh", "reply"} /\ origin[s.new] = l

(* The refresh key a client is about to learn of is live, or its login has  *)
(* ended: nobody else knows the pair.                                       *)
Replies ==
    \A w \in Workers : worker[w].pc = "reply" =>
        worker[w].new \in refresh \/ origin[worker[w].new] \in ended

Damages ==
    /\ IsFiniteSet(Strays) /\ Cardinality(Strays) <= faults
    /\ IsFiniteSet(Lost) /\ Cardinality(Lost) <= faults

LEMMA Names ==
    \A w \in Workers :
        /\ \A p : Handles(w, p) <=> Tends(worker[w], p)
        /\ \A l : Renews(w, l) <=> Continues(worker[w], l)
  BY DEF Handles, Tends, Renews, Continues

LEMMA OneMoves ==
    ASSUME IInv, NEW w \in Workers, NEW s, Goto(w, s)
    PROVE  worker'[w] = s /\ \A v \in Workers \ {w} : worker'[v] = worker[v]
  BY DEF IInv, TypeOK, Goto

(* A request that moves strands no access key outside X, if it gives up no  *)
(* key it tended that is still live.                                        *)
LEMMA StraysStay ==
    ASSUME IInv, NEW w \in Workers, NEW s, Goto(w, s), NEW X, spared \subseteq spared',
           \A p \in access' \ (X \cup spared') :
                /\ p \in access
                /\ p \in refresh /\ p \notin refresh' => Tends(s, p) \/ Forsakes(worker[w], p)
                /\ Tends(worker[w], p) /\ p \notin refresh' => Tends(s, p)
                /\ Forsakes(s, p) => Forsakes(worker[w], p)
    PROVE  Strays' \subseteq Strays \cup X
  <1> SUFFICES ASSUME NEW p \in Strays', p \notin X PROVE p \in Strays
    OBVIOUS
  <1>1. worker'[w] = s /\ \A v \in Workers \ {w} : worker'[v] = worker[v]
    BY OneMoves
  <1>2. p \in access' \ spared' /\ p \in access \ spared
    BY DEF Strays
  <1>3. CASE p \notin refresh' /\ \A v \in Workers : ~Tends(worker'[v], p)
    <2>1. \A v \in Workers : ~Tends(worker[v], p)
      BY <1>1, <1>2, <1>3
    <2>2. p \in refresh => Forsakes(worker[w], p)
      BY <1>1, <1>2, <1>3
    <2> QED
      BY <1>2, <2>1, <2>2 DEF Strays
  <1>4. ASSUME NEW v \in Workers, Forsakes(worker'[v], p) PROVE p \in Strays
    <2>1. Forsakes(worker[v], p)
      BY <1>1, <1>2, <1>4
    <2> QED
      BY <1>2, <2>1 DEF Strays
  <1>5. \/ p \notin refresh' /\ \A v \in Workers : ~Tends(worker'[v], p)
        \/ \E v \in Workers : Forsakes(worker'[v], p)
    BY DEF Strays, Tends, Forsakes
  <1> QED
    BY <1>3, <1>4, <1>5

(* A request that moves loses no login outside X, if it gives up none that  *)
(* it was renewing.                                                         *)
LEMMA LostStay ==
    ASSUME IInv, NEW w \in Workers, NEW s, Goto(w, s), NEW X, UNCHANGED <<origin, delivered>>,
           ended \subseteq ended',
           \A l \in Pairs \ X :
                /\ \A p \in refresh \ refresh' : p \in delivered /\ origin[p] = l =>
                        Continues(s, l) \/ l \in ended'
                /\ Continues(worker[w], l) => Continues(s, l)
    PROVE  Lost' \subseteq Lost \cup X
  <1> SUFFICES ASSUME NEW l \in Lost', l \notin X PROVE l \in Lost
    OBVIOUS
  <1>1. worker'[w] = s /\ \A v \in Workers \ {w} : worker'[v] = worker[v]
    BY OneMoves
  <1>2. /\ l \in Pairs \ ended' /\ \E p \in delivered : origin[p] = l
        /\ \A p \in refresh' : origin[p] = l => p \notin delivered
        /\ \A v \in Workers : ~Renews(v, l)'
    BY DEF Lost
  <1>3. \A v \in Workers : ~Continues(worker'[v], l)
    BY <1>2 DEF Renews, Continues
  <1>4. \A v \in Workers : ~Renews(v, l)
    BY <1>1, <1>2, <1>3 DEF Renews, Continues
  <1>5. ASSUME NEW p \in refresh, origin[p] = l PROVE p \notin delivered
    BY <1>1, <1>2, <1>3, <1>5
  <1> QED
    BY <1>2, <1>4, <1>5 DEF Lost

(* What a step may cost.                                                    *)
Bearable ==
    \/ faults' = faults /\ Strays' \subseteq Strays /\ Lost' \subseteq Lost
    \/ /\ faults' = faults + 1
       /\ \E p : Strays' \subseteq Strays \cup {p}
       /\ \E l : Lost' \subseteq Lost \cup {l}

LEMMA IdleTends ==
    /\ \A p : ~Tends(Idle, p) /\ ~Forsakes(Idle, p)
    /\ \A l : ~Continues(Idle, l) /\ ~Continues(Idle, l)'
  BY DEF Idle, Tends, Forsakes, Continues

(* A request that takes up or gives up nothing.                             *)
LEMMA NothingLeft ==
    ASSUME IInv, NEW w \in Workers, NEW s, Goto(w, s),
           UNCHANGED <<keys, origin, delivered, ended, spared, faults>>,
           \A p : Tends(worker[w], p) => Tends(s, p),
           \A p : Forsakes(s, p) => Forsakes(worker[w], p),
           \A l : Continues(worker[w], l) => Continues(s, l)
    PROVE  Bearable
  <1>1. Strays' \subseteq Strays \cup {}
    BY StraysStay DEF keys
  <1>2. Lost' \subseteq Lost \cup {}
    BY LostStay DEF keys
  <1> QED
    BY <1>1, <1>2 DEF Bearable

(* A request that stops, and may have changed its own keys.                 *)
LEMMA OneLeft ==
    ASSUME IInv, NEW w \in Workers, Goto(w, Idle), Fault, NEW x, NEW m,
           UNCHANGED <<origin, delivered, ended, spared>>,
           access' \subseteq access \cup {x},
           refresh \ refresh' \subseteq {x}, \A p \in delivered : p = x => origin[p] = m,
           \A p : Tends(worker[w], p) => p = x, \A l : Continues(worker[w], l) => l = m
    PROVE  Bearable
  <1>1. Strays' \subseteq Strays \cup {x}
    BY IdleTends, StraysStay
  <1>2. Lost' \subseteq Lost \cup {m}
    <2>1. ASSUME NEW l \in Pairs \ {m}
          PROVE  /\ \A p \in refresh \ refresh' : ~(p \in delivered /\ origin[p] = l)
                 /\ ~Continues(worker[w], l)
      OBVIOUS
    <2> QED
      BY <2>1, IdleTends, LostStay
  <1> QED
    BY <1>1, <1>2 DEF Bearable, Fault

LEMMA StartCosts ==
    ASSUME IInv, NEW w \in Workers,
           \/ UserLogin(w)
           \/ \E p \in Pairs : RefreshToken(w, p)
           \/ \E p \in Pairs, q \in Pairs \cup {NoPair} : Logout(w, p, q)
    PROVE  Bearable
  <1>1. PICK s : /\ Goto(w, s) /\ s.pc \in {"issue", "pop", "delAccess"} /\ At(w, "idle")
                 /\ UNCHANGED <<keys, origin, delivered, ended, spared, faults>>
    <2>1. CASE UserLogin(w)
      BY <2>1 DEF UserLogin, Idle, history, endings
    <2>2. ASSUME NEW p \in Pairs, RefreshToken(w, p)
          PROVE  \E s : /\ Goto(w, s) /\ s.pc \in {"issue", "pop", "delAccess"} /\ At(w, "idle")
                        /\ UNCHANGED <<keys, origin, delivered, ended, spared, faults>>
      BY <2>2 DEF RefreshToken, Idle, history, endings
    <2>3. ASSUME NEW p \in Pairs, NEW q \in Pairs \cup {NoPair}, Logout(w, p, q)
          PROVE  \E s : /\ Goto(w, s) /\ s.pc \in {"issue", "pop", "delAccess"} /\ At(w, "idle")
                        /\ UNCHANGED <<keys, origin, delivered, ended, spared, faults>>
      BY <2>3 DEF Logout, Idle, history, endings
    <2> QED
      BY <2>1, <2>2, <2>3
  <1> QED
    BY <1>1, NothingLeft DEF At, Tends, Forsakes, Continues

LEMMA PopCosts == ASSUME IInv, NEW w \in Workers, Pop(w) PROVE Bearable
  <1>0. PICK p \in delivered : p = worker[w].old
    BY Own DEF Pop, At, KeyOK, HoldsOld
  <1>1. CASE p \notin refresh
    <2>1. Goto(w, Idle) /\ refresh' = refresh
      BY <1>0, <1>1 DEF Pop, Removed
    <2> QED
      BY <2>1, IdleTends, NothingLeft DEF Pop, keys, endings, At, Tends, Continues
  <1>2. CASE p \in refresh
    <2>1. PICK s : s = [worker[w] EXCEPT !.pc = "load"]
      OBVIOUS
    <2>2. s.pc = "load" /\ s.old = p /\ p # NoPair
      BY <1>0, <2>1, Own, SessionAssumption DEF WorkerStates, IInv, TypeOK
    <2>3. /\ Goto(w, s) /\ refresh' = refresh \ {p} /\ At(w, "pop")
          /\ UNCHANGED <<access, origin, delivered, ended, spared, faults>>
      BY <1>0, <1>2, <2>1 DEF Pop, Proceed, Removed, endings
    <2>4. Strays' \subseteq Strays \cup {}
      BY <2>2, <2>3, StraysStay DEF At, Tends, Forsakes
    <2>5. Lost' \subseteq Lost \cup {}
      BY <2>2, <2>3, LostStay DEF At, Continues
    <2> QED
      BY <2>3, <2>4, <2>5 DEF Bearable
  <1> QED
    BY <1>1, <1>2

LEMMA PopFailsCosts == ASSUME IInv, NEW w \in Workers, PopFails(w) PROVE Bearable
  <1>1. PICK p, l : p = worker[w].old /\ l = origin[p]
    OBVIOUS
  <1> QED
    BY <1>1, OneLeft DEF PopFails, history, endings, Removed, At, Tends, Continues

LEMMA LoadUserCosts == ASSUME IInv, NEW w \in Workers, LoadUser(w) PROVE Bearable
  <1>1. CASE Proceed(w, "drop") /\ UNCHANGED faults
    <2>1. PICK s : s = [worker[w] EXCEPT !.pc = "drop"]
      OBVIOUS
    <2>2. s.pc = "drop" /\ s.old = worker[w].old
      BY <2>1, Own DEF WorkerStates
    <2> QED
      BY <1>1, <2>1, <2>2, NothingLeft
         DEF LoadUser, Proceed, history, endings, At, Tends, Forsakes, Continues
  <1>2. CASE Goto(w, Idle) /\ Fault
    BY <1>2, OneLeft DEF LoadUser, keys, history, endings, At, Tends, Continues
  <1> QED
    BY <1>1, <1>2 DEF LoadUser

LEMMA DropOldCosts == ASSUME IInv, NEW w \in Workers, DropOld(w) PROVE Bearable
  <1>1. PICK s : s = [worker[w] EXCEPT !.pc = "issue"]
    OBVIOUS
  <1>2. /\ s.pc = "issue" /\ s.old = worker[w].old /\ Goto(w, s) /\ worker[w].pc = "drop"
        /\ UNCHANGED <<refresh, origin, delivered, ended, spared>>
    BY <1>1, Own DEF WorkerStates, DropOld, Proceed, history, endings, At
  <1>3. Lost' \subseteq Lost \cup {}
    BY <1>2, LostStay DEF Continues
  <1>4. CASE Removed(access, worker[w].old) /\ UNCHANGED faults
    <2>1. Strays' \subseteq Strays \cup {}
      BY <1>2, <1>4, StraysStay DEF Removed, Tends, Forsakes
    <2> QED
      BY <1>3, <1>4, <2>1 DEF Bearable
  <1>5. CASE UNCHANGED access /\ Fault
    <2>1. PICK x : x = worker[w].old
      OBVIOUS
    <2>2. /\ \A p : Tends(worker[w], p) => p = x
          /\ \A p : ~Forsakes(s, p)
      BY <1>2, <2>1 DEF Tends, Forsakes
    <2>3. Strays' \subseteq Strays \cup {x}
      BY <1>2, <1>5, <2>2, StraysStay
    <2> QED
      BY <1>3, <1>5, <2>3 DEF Bearable, Fault
  <1> QED
    BY <1>4, <1>5 DEF DropOld

LEMMA SetAccessCosts == ASSUME IInv, NEW w \in Workers, SetAccess(w) PROVE Bearable
  <1>0. worker[w].pc = "setAccess" /\ worker[w].new \in Issued \ delivered
    BY Own DEF SetAccess, At, KeyOK, HoldsNew
  <1>1. CASE Added(access, worker[w].new) /\ Proceed(w, "setRefresh") /\ UNCHANGED faults
    <2>1. PICK s : s = [worker[w] EXCEPT !.pc = "setRefresh"]
      OBVIOUS
    <2>2. s.pc = "setRefresh" /\ s.new = worker[w].new /\ Goto(w, s)
      BY <1>1, <2>1, Own DEF WorkerStates, Proceed
    <2>3. Strays' \subseteq Strays \cup {worker[w].new}
      <3>1. PICK n : n = worker[w].new
        OBVIOUS
      <3>2. access' = access \cup {n} /\ UNCHANGED <<refresh, spared>>
        BY <1>1, <3>1 DEF SetAccess, Added, history, endings
      <3>3. \A p : ~Tends(worker[w], p) /\ ~Forsakes(s, p)
        BY <1>0, <2>2 DEF Tends, Forsakes
      <3>4. /\ spared \subseteq spared'
            /\ \A p \in access' \ ({n} \cup spared') :
                /\ p \in access
                /\ p \in refresh /\ p \notin refresh' => Tends(s, p) \/ Forsakes(worker[w], p)
                /\ Tends(worker[w], p) /\ p \notin refresh' => Tends(s, p)
                /\ Forsakes(s, p) => Forsakes(worker[w], p)
        BY <3>2, <3>3
      <3>5. Strays' \subseteq Strays \cup {n}
        BY <2>2, <3>4, StraysStay
      <3> QED
        BY <3>1, <3>5
    <2>4. worker[w].new \notin Strays'
      <3>1. worker'[w] = s /\ \A v \in Workers \ {w} : worker'[v] = worker[v]
        BY <2>2, OneMoves
      <3>2. ASSUME NEW v \in Workers PROVE ~Forsakes(worker'[v], worker[w].new)
        BY <1>0, <2>2, <3>1, Own DEF Forsakes, KeyOK, HoldsOld
      <3>3. Tends(worker'[w], worker[w].new)
        BY <2>2, <3>1 DEF Tends
      <3> QED
        BY <3>2, <3>3 DEF Strays, Tends, Forsakes
    <2>5. Lost' \subseteq Lost \cup {}
      BY <1>0, <2>2, LostStay DEF SetAccess, history, endings, Continues
    <2> QED
      BY <1>1, <2>3, <2>4, <2>5 DEF Bearable
  <1>2. CASE (Added(access, worker[w].new) \/ UNCHANGED access) /\ Goto(w, Idle) /\ Fault
    <2>1. PICK x : x = worker[w].new
      OBVIOUS
    <2>2. /\ UNCHANGED <<refresh, origin, delivered, ended, spared>>
          /\ access' \subseteq access \cup {x}
      BY <1>2, <2>1 DEF SetAccess, Added, history, endings
    <2>3. PICK m : m = origin[x]
      OBVIOUS
    <2>4. /\ \A p : ~Tends(worker[w], p)
          /\ \A l : Continues(worker[w], l) => l = m
      BY <1>0, <2>1, <2>3 DEF Tends, Continues
    <2> QED
      BY <1>2, <2>2, <2>3, <2>4, OneLeft
  <1> QED
    BY <1>1, <1>2 DEF SetAccess

LEMMA SetRefreshCosts == ASSUME IInv, NEW w \in Workers, SetRefresh(w) PROVE Bearable
  <1>0. /\ worker[w].pc = "setRefresh" /\ worker[w] \in WorkerStates
        /\ UNCHANGED <<access, origin, delivered, ended, spared>>
    BY Own DEF SetRefresh, At, history, endings
  <1>1. CASE Added(refresh, worker[w].new) /\ Proceed(w, "reply") /\ UNCHANGED faults
    <2>1. PICK s : s = [worker[w] EXCEPT !.pc = "reply"]
      OBVIOUS
    <2>2. s.pc = "reply" /\ s.new = worker[w].new /\ Goto(w, s)
      BY <1>0, <1>1, <2>1 DEF WorkerStates, Proceed
    <2>3. Strays' \subseteq Strays \cup {}
      BY <1>0, <1>1, <2>2, StraysStay DEF Added, Tends, Forsakes
    <2>4. Lost' \subseteq Lost \cup {}
      BY <1>0, <1>1, <2>2, LostStay DEF Added, Continues
    <2> QED
      BY <1>1, <2>3, <2>4 DEF Bearable
  <1>2. CASE /\ Added(refresh, worker[w].new) \/ UNCHANGED refresh
             /\ Proceed(w, "undo") /\ Fault
    <2>1. PICK s : s = [worker[w] EXCEPT !.pc = "undo"]
      OBVIOUS
    <2>2. s.pc = "undo" /\ s.new = worker[w].new /\ Goto(w, s)
      BY <1>0, <1>2, <2>1 DEF WorkerStates, Proceed
    <2>3. Strays' \subseteq Strays \cup {worker[w].new}
      BY <1>0, <1>2, <2>2, StraysStay DEF Added, Tends, Forsakes
    <2>4. Lost' \subseteq Lost \cup {origin[worker[w].new]}
      BY <1>0, <1>2, <2>2, LostStay DEF Added, Continues
    <2> QED
      BY <1>2, <2>3, <2>4 DEF Bearable, Fault
  <1> QED
    BY <1>1, <1>2 DEF SetRefresh

LEMMA UndoCosts == ASSUME IInv, NEW w \in Workers, Undo(w) PROVE Bearable
  <1>0. /\ worker[w].pc = "undo" /\ Goto(w, Idle)
        /\ UNCHANGED <<refresh, origin, delivered, ended, spared>>
    BY DEF Undo, At, history, endings
  <1>1. Lost' \subseteq Lost \cup {}
    BY <1>0, IdleTends, LostStay DEF Continues
  <1>2. CASE Removed(access, worker[w].new) /\ UNCHANGED faults
    <2>1. Strays' \subseteq Strays \cup {}
      BY <1>0, <1>2, IdleTends, StraysStay DEF Removed, Tends
    <2> QED
      BY <1>1, <1>2, <2>1 DEF Bearable
  <1>3. CASE UNCHANGED access /\ Fault
    <2>1. PICK x : x = worker[w].new
      OBVIOUS
    <2>2. \A p : Tends(worker[w], p) => p = x
      BY <1>0, <2>1 DEF Tends
    <2>3. Strays' \subseteq Strays \cup {x}
      BY <1>0, <1>3, <2>2, IdleTends, StraysStay
    <2> QED
      BY <1>1, <1>3, <2>3 DEF Bearable, Fault
  <1> QED
    BY <1>2, <1>3 DEF Undo

LEMMA DeleteAccessCosts == ASSUME IInv, NEW w \in Workers, DeleteAccess(w) PROVE Bearable
  <1>0. /\ worker[w].pc = "delAccess" /\ worker[w] \in WorkerStates
        /\ access' \subseteq access
        /\ UNCHANGED <<refresh, origin, delivered, ended, spared>>
    BY Own DEF DeleteAccess, At, Removed
  <1>1. PICK x : x = worker[w].old
    OBVIOUS
  <1>2. PICK s : /\ Goto(w, s)
                 /\ s = Idle \/ (s.pc = "delRefresh" /\ s.old = x)
                 /\ \/ UNCHANGED faults /\ Removed(access, x)
                    \/ Fault
    <2>1. CASE worker[w].named = NoPair
      BY <1>0, <1>1, <2>1 DEF DeleteAccess
    <2>2. CASE worker[w].named # NoPair /\ UNCHANGED faults
      <3>1. /\ Goto(w, [worker[w] EXCEPT !.pc = "delRefresh"]) \/ Fault
            /\ Removed(access, x) \/ Fault
        BY <1>1, <2>2 DEF DeleteAccess
      <3>2. ~Fault
        BY <2>2, Own DEF Fault
      <3> QED
        BY <1>0, <1>1, <2>2, <3>1, <3>2 DEF WorkerStates
    <2>3. CASE worker[w].named # NoPair /\ ~UNCHANGED faults
      <3>1. Goto(w, [worker[w] EXCEPT !.pc = "delRefresh", !.failed = TRUE]) /\ Fault
        BY <2>3 DEF DeleteAccess
      <3> QED
        BY <1>0, <1>1, <3>1 DEF WorkerStates
    <2> QED
      BY <2>1, <2>2, <2>3
  <1>3. /\ \A p : ~Tends(worker[w], p) /\ ~Tends(s, p) /\ (Forsakes(s, p) => p = x)
        /\ \A l : ~Continues(worker[w], l)
    BY <1>0, <1>2, IdleTends DEF Tends, Forsakes, Continues
  <1>4. Lost' \subseteq Lost \cup {}
    BY <1>0, <1>2, <1>3, LostStay
  <1>5. CASE UNCHANGED faults /\ Removed(access, x)
    <2>1. Strays' \subseteq Strays \cup {}
      BY <1>0, <1>2, <1>3, <1>5, StraysStay DEF Removed
    <2> QED
      BY <1>4, <1>5, <2>1 DEF Bearable
  <1>6. CASE Fault
    <2>1. /\ spared \subseteq spared'
          /\ \A p \in access' \ ({x} \cup spared') :
                /\ p \in access
                /\ p \in refresh /\ p \notin refresh' => Tends(s, p) \/ Forsakes(worker[w], p)
                /\ Tends(worker[w], p) /\ p \notin refresh' => Tends(s, p)
                /\ Forsakes(s, p) => Forsakes(worker[w], p)
      BY <1>0, <1>3
    <2>2. Goto(w, s)
      BY <1>2
    <2>3. Strays' \subseteq Strays \cup {x}
      BY <2>1, <2>2, StraysStay
    <2> QED
      BY <1>4, <1>6, <2>3 DEF Bearable, Fault
  <1> QED
    BY <1>2, <1>5, <1>6

LEMMA DeleteRefreshCosts == ASSUME IInv, NEW w \in Workers, DeleteRefresh(w) PROVE Bearable
  <1>0. PICK p \in delivered, q \in delivered : p = worker[w].old /\ q = worker[w].named
    BY Own DEF DeleteRefresh, At, KeyOK, HoldsOld
  <1>1. /\ worker[w].pc = "delRefresh" /\ Goto(w, Idle)
        /\ UNCHANGED <<access, origin, delivered>>
        /\ p \in access => Forsakes(worker[w], p)
    BY <1>0, Own DEF DeleteRefresh, At, KeyOK, Forsakes
  <1>2. /\ \/ refresh' = refresh \ {q} /\ ended' = ended \cup {origin[q]}
           \/ UNCHANGED <<refresh, ended>>
        /\ spared \subseteq spared'
        /\ q \in refresh \ refresh' /\ q \in access => q = p \/ q \in spared'
    BY <1>0 DEF DeleteRefresh, RefreshGoes, Removed
  <1>3. \A r \in refresh \ refresh' : r = q /\ origin[r] \in ended'
    BY <1>2
  <1>4. Strays' \subseteq Strays \cup {}
    BY <1>1, <1>2, <1>3, IdleTends, StraysStay DEF Tends
  <1>5. Lost' \subseteq Lost \cup {}
    BY <1>1, <1>2, <1>3, IdleTends, LostStay DEF Continues
  <1>6. UNCHANGED faults \/ Fault
    BY DEF DeleteRefresh
  <1> QED
    BY <1>4, <1>5, <1>6 DEF Bearable, Fault

LEMMA AbortCosts == ASSUME IInv, NEW w \in Workers, Abort(w) PROVE Bearable
  <1>1. PICK x : x = IF worker[w].pc \in {"setRefresh", "undo"} THEN worker[w].new
                     ELSE worker[w].old
    OBVIOUS
  <1>2. PICK m : m = IF worker[w].pc \in {"setAccess", "setRefresh", "reply"}
                     THEN origin[worker[w].new] ELSE origin[worker[w].old]
    OBVIOUS
  <1>3. /\ \A p : Tends(worker[w], p) => p = x
        /\ \A l : Continues(worker[w], l) => l = m
    BY <1>1, <1>2 DEF Tends, Continues
  <1>4. Strays' \subseteq Strays \cup {x}
    BY <1>3, IdleTends, StraysStay DEF Abort, keys, history, endings
  <1>5. Lost' \subseteq Lost \cup {m}
    BY <1>3, IdleTends, LostStay DEF Abort, keys, history, endings
  <1> QED
    BY <1>4, <1>5 DEF Abort, Bearable, Fault

(* The clock ends a login whose refresh key it deletes, and an access       *)
(* session that outlives the key is spared.                                 *)
LEMMA ExpireCosts == ASSUME IInv, NEW p \in Pairs, Expire(p) PROVE Bearable
  <1>1. /\ UNCHANGED <<origin, delivered, worker, faults>>
        /\ access' \subseteq access
        /\ \A q \in refresh \ refresh' : /\ q \in access' => q \in spared'
                                         /\ origin[q] \in ended'
        /\ ended \subseteq ended' /\ spared \subseteq spared'
    <2>1. CASE p \in refresh /\ RefreshGoes(p, NoPair) /\ UNCHANGED access
      <3>1. /\ refresh' = refresh \ {p} /\ ended' = ended \cup {origin[p]}
            /\ spared \subseteq spared' /\ (p \in access => p \in spared')
        BY <2>1, SessionAssumption DEF RefreshGoes, Removed
      <3> QED
        BY <2>1, <3>1 DEF Expire
    <2>2. CASE Removed(access, p) /\ UNCHANGED <<refresh, ended, spared>>
      BY <2>2 DEF Expire, Removed
    <2> QED
      BY <2>1, <2>2 DEF Expire
  <1>2. Strays' \subseteq Strays
    BY <1>1 DEF Strays, Tends, Forsakes
  <1>3. Lost' \subseteq Lost
    <2> SUFFICES ASSUME NEW l \in Lost' PROVE l \in Lost
      OBVIOUS
    <2>1. /\ l \in Pairs \ ended' /\ \E q \in delivered : origin[q] = l
          /\ \A q \in refresh' : origin[q] = l => q \notin delivered
          /\ \A w \in Workers : ~Renews(w, l)
      BY <1>1 DEF Lost, Renews
    <2> QED
      BY <1>1, <2>1 DEF Lost
  <1> QED
    BY <1>1, <1>2, <1>3 DEF Bearable

LEMMA GenerateTokenPairCosts ==
    ASSUME IInv, NEW w \in Workers, GenerateTokenPair(w) PROVE Bearable
  <1>0. PICK n \in Pairs :
            /\ origin[n] = NoPair
            /\ origin' = [origin EXCEPT ![n] = IF worker[w].old = NoPair THEN n
                                               ELSE origin[worker[w].old]]
            /\ Goto(w, [worker[w] EXCEPT !.pc = "setAccess", !.new = n])
    BY DEF GenerateTokenPair
  <1>1. PICK s : s = [worker[w] EXCEPT !.pc = "setAccess", !.new = n]
    OBVIOUS
  <1>2. /\ worker[w].pc = "issue" /\ s.pc = "setAccess" /\ s.new = n /\ Goto(w, s)
        /\ UNCHANGED <<access, refresh, delivered, ended, spared, faults>>
    BY <1>0, <1>1, Own DEF GenerateTokenPair, At, keys, history, endings, WorkerStates
  <1>3. /\ worker'[w] = s /\ \A v \in Workers \ {w} : worker'[v] = worker[v]
    BY <1>2, OneMoves
  <1>4. /\ \A p \in Issued : origin'[p] = origin[p] /\ p # n
        /\ delivered \subseteq Issued /\ refresh \subseteq Issued /\ origin[n] = NoPair
        /\ \A p \in Issued : origin[p] # n
        /\ origin'[n] = IF worker[w].old = NoPair THEN n ELSE origin[worker[w].old]
    BY <1>0 DEF IInv, TypeOK, Chains, Issued
  <1>5. Strays' \subseteq Strays \cup {}
    BY <1>2, StraysStay DEF Tends, Forsakes
  <1>6. Lost' \subseteq Lost
    <2> SUFFICES ASSUME NEW l \in Lost' PROVE l \in Lost
      OBVIOUS
    <2>1. /\ l \in Pairs \ ended /\ \E p \in delivered : origin'[p] = l
          /\ \A p \in refresh : origin'[p] = l => p \notin delivered
          /\ \A v \in Workers : ~Renews(v, l)'
      BY <1>2 DEF Lost
    <2>2. /\ \E p \in delivered : origin[p] = l
          /\ \A p \in refresh : origin[p] = l => p \notin delivered
      BY <1>4, <2>1
    <2>3. ASSUME NEW v \in Workers, v # w PROVE ~Renews(v, l)
      <3>1. worker'[v] = worker[v] /\ KeyOK(worker[v]) /\ ~Renews(v, l)'
        BY <1>3, <2>1, <2>3, Own
      <3>2. /\ Renewing(worker[v]) => worker[v].old \in Issued
            /\ worker[v].pc \in HoldsNew => worker[v].new \in Issued
        BY <1>4, <3>1 DEF KeyOK
      <3> QED
        BY <1>4, <3>1, <3>2 DEF Renews, Renewing, HoldsNew
    <2>4. ~Renews(w, l)
      <3>1. origin'[n] # l
        BY <1>2, <1>3, <2>1 DEF Renews
      <3> QED
        BY <1>2, <1>4, <3>1 DEF Renews
    <2> QED
      BY <2>1, <2>2, <2>3, <2>4 DEF Lost
  <1> QED
    BY <1>2, <1>5, <1>6 DEF Bearable

LEMMA ReplyCosts == ASSUME IInv, Replies, NEW w \in Workers, Reply(w) PROVE Bearable
  <1>0. /\ worker[w].pc = "reply" /\ Goto(w, Idle)
        /\ UNCHANGED <<access, refresh, origin, ended, spared>>
    BY DEF Reply, At, keys, history, endings
  <1>1. PICK n, m : n = worker[w].new /\ m = origin[n] /\ (n \in refresh \/ m \in ended)
    BY <1>0 DEF Replies
  <1>2. \A l : Continues(worker[w], l) => l = m
    BY <1>0, <1>1 DEF Continues
  <1>3. Strays' \subseteq Strays \cup {}
    BY <1>0, IdleTends, StraysStay DEF Tends
  <1>4. CASE delivered' = delivered \cup {n} /\ UNCHANGED faults
    <2>1. ASSUME NEW l \in Lost' PROVE l \in Lost
      <3>1. worker'[w] = Idle /\ \A v \in Workers \ {w} : worker'[v] = worker[v]
        BY <1>0, OneMoves
      <3>2. /\ l \in Pairs \ ended /\ \E p \in delivered' : origin[p] = l
            /\ \A p \in refresh : origin[p] = l => p \notin delivered'
            /\ \A v \in Workers : ~Renews(v, l)'
        BY <1>0 DEF Lost
      <3>3. l # m
        BY <1>1, <1>4, <3>2
      <3>4. \A v \in Workers : ~Renews(v, l)
        BY <1>0, <1>2, <3>1, <3>2, <3>3 DEF Renews, Continues
      <3> QED
        BY <1>1, <1>4, <3>2, <3>3, <3>4 DEF Lost
    <2> QED
      BY <1>3, <1>4, <2>1 DEF Bearable
  <1>5. CASE UNCHANGED delivered /\ Fault
    <2>1. Lost' \subseteq Lost \cup {m}
      BY <1>0, <1>2, <1>5, IdleTends, LostStay
    <2> QED
      BY <1>3, <1>5, <2>1 DEF Bearable, Fault
  <1> QED
    BY <1>1, <1>4, <1>5 DEF Reply

LEMMA StepCosts == ASSUME IInv, Replies, [Next]_vars PROVE Bearable
  <1>1. ASSUME NEW w \in Workers, Step(w) PROVE Bearable
    BY <1>1, PopCosts, PopFailsCosts, LoadUserCosts, DropOldCosts, GenerateTokenPairCosts,
       SetAccessCosts, SetRefreshCosts, UndoCosts, ReplyCosts, DeleteAccessCosts,
       DeleteRefreshCosts DEF Step
  <1>2. CASE UNCHANGED vars
    BY <1>2 DEF vars, Bearable, Strays, Lost, Tends, Forsakes, Renews
  <1>3. ASSUME NEW w \in Workers, \/ UserLogin(w)
                                  \/ \E p \in Pairs : RefreshToken(w, p)
                                  \/ \E p \in Pairs, q \in Pairs \cup {NoPair} : Logout(w, p, q)
        PROVE  Bearable
    BY <1>3, StartCosts
  <1> QED
    BY <1>1, <1>2, <1>3, AbortCosts, ExpireCosts DEF Next

(* What a client is about to be told is still true when it is told: the     *)
(* pair is in nobody else's hands.                                          *)
LEMMA UntoldStays ==
    ASSUME IInv, [Next]_vars, NEW n \in Issued \ delivered, n \in refresh \/ origin[n] \in ended
    PROVE  n \in refresh' \/ origin'[n] \in ended'
  <1>1. ASSUME NEW w \in Workers, Pop(w) \/ PopFails(w) \/ DeleteRefresh(w)
        PROVE  /\ n \in refresh => n \in refresh'
               /\ ended \subseteq ended' /\ origin' = origin
    <2>1. CASE Pop(w) \/ PopFails(w)
      <3>1. worker[w].old \in delivered
        BY <2>1, Own DEF Pop, PopFails, At, KeyOK, HoldsOld
      <3>2. refresh \ {worker[w].old} \subseteq refresh' /\ UNCHANGED <<ended, origin>>
        BY <2>1 DEF Pop, PopFails, Removed, history, endings
      <3> QED
        BY <3>1, <3>2
    <2>2. CASE DeleteRefresh(w)
      <3>1. worker[w].named \in delivered
        BY <2>2, Own DEF DeleteRefresh, At, KeyOK
      <3>2. /\ refresh \ {worker[w].named} \subseteq refresh'
            /\ ended \subseteq ended' /\ origin' = origin
        BY <2>2 DEF DeleteRefresh, RefreshGoes, Removed
      <3> QED
        BY <3>1, <3>2
    <2> QED
      BY <1>1, <2>1, <2>2
  <1>2. ASSUME NEW p \in Pairs, Expire(p) PROVE n \in refresh' \/ origin'[n] \in ended'
    BY <1>2 DEF Expire, RefreshGoes, Removed
  <1>3. ASSUME NEW w \in Workers, GenerateTokenPair(w)
        PROVE  origin'[n] = origin[n] /\ UNCHANGED <<refresh, ended>>
    BY <1>3 DEF GenerateTokenPair, keys, history, endings, IInv, TypeOK, Issued
  <1>4. ASSUME NEW w \in Workers, \/ LoadUser(w) \/ DropOld(w) \/ SetAccess(w) \/ SetRefresh(w)
                                  \/ Undo(w) \/ Reply(w) \/ DeleteAccess(w) \/ Abort(w)
                                  \/ UserLogin(w)
        PROVE  UNCHANGED <<origin, ended>> /\ refresh \subseteq refresh'
    BY <1>4 DEF LoadUser, DropOld, SetAccess, SetRefresh, Added, Undo, Reply, DeleteAccess,
                Abort, UserLogin, keys, history, endings
  <1>5. ASSUME NEW w \in Workers, NEW p \in Pairs,
               RefreshToken(w, p) \/ \E q \in Pairs \cup {NoPair} : Logout(w, p, q)
        PROVE  UNCHANGED <<origin, ended>> /\ refresh \subseteq refresh'
    BY <1>5 DEF RefreshToken, Logout, keys, history, endings
  <1>6. CASE UNCHANGED vars
    BY <1>6 DEF vars
  <1>7. ASSUME NEW w \in Workers, Step(w) \/ Abort(w) \/ UserLogin(w)
        PROVE  n \in refresh' \/ origin'[n] \in ended'
    BY <1>1, <1>3, <1>4, <1>7 DEF Step
  <1>8. ASSUME NEW w \in Workers, NEW p \in Pairs,
               RefreshToken(w, p) \/ \E q \in Pairs \cup {NoPair} : Logout(w, p, q)
        PROVE  n \in refresh' \/ origin'[n] \in ended'
    BY <1>5, <1>8
  <1>9. CASE UNCHANGED vars
    BY <1>6, <1>9
  <1> QED
    BY <1>2, <1>7, <1>8, <1>9 DEF Next

(* SetRefresh is the only call after which a request answers.               *)
LEMMA OnlyFromSetRefresh ==
    ASSUME IInv, NEW w \in Workers, ~SetRefresh(w),
           \/ Step(w) \/ UserLogin(w) \/ Abort(w)
           \/ \E p \in Pairs : RefreshToken(w, p)
           \/ \E p \in Pairs, q \in Pairs \cup {NoPair} : Logout(w, p, q)
    PROVE  \E s : Goto(w, s) /\ s.pc # "reply"
  <1>0. Idle.pc = "idle"
    BY DEF Idle
  <1>1. ASSUME NEW c \in PCs, Proceed(w, c), c # "reply"
        PROVE  \E s : Goto(w, s) /\ s.pc # "reply"
    <2>1. PICK s : s = [worker[w] EXCEPT !.pc = c]
      OBVIOUS
    <2>2. s.pc = c
      BY <2>1, Own DEF WorkerStates
    <2> QED
      BY <1>1, <2>1, <2>2 DEF Proceed
  <1>2. CASE Pop(w) \/ PopFails(w) \/ LoadUser(w) \/ DropOld(w) \/ SetAccess(w)
    <2>1. \/ Goto(w, Idle)
          \/ \E c \in {"load", "drop", "issue", "setRefresh"} : Proceed(w, c)
      BY <1>2 DEF Pop, PopFails, LoadUser, DropOld, SetAccess
    <2> QED
      BY <1>0, <1>1, <2>1 DEF PCs
  <1>3. CASE Undo(w) \/ Reply(w) \/ DeleteRefresh(w) \/ Abort(w)
    <2>1. Goto(w, Idle)
      BY <1>3 DEF Undo, Reply, DeleteRefresh, Abort
    <2> QED
      BY <1>0, <2>1
  <1>4. ASSUME GenerateTokenPair(w) PROVE \E s : Goto(w, s) /\ s.pc # "reply"
    <2>1. PICK n : Goto(w, [worker[w] EXCEPT !.pc = "setAccess", !.new = n])
      BY <1>4 DEF GenerateTokenPair
    <2>2. PICK s : s = [worker[w] EXCEPT !.pc = "setAccess", !.new = n]
      OBVIOUS
    <2>3. s.pc = "setAccess"
      BY <2>2, Own DEF WorkerStates
    <2> QED
      BY <2>1, <2>2, <2>3
  <1>5. CASE DeleteAccess(w)
    <2>1. \/ Goto(w, Idle) \/ Proceed(w, "delRefresh")
          \/ Goto(w, [worker[w] EXCEPT !.pc = "delRefresh", !.failed = TRUE])
      BY <1>5 DEF DeleteAccess, Proceed
    <2>2. PICK s : s = [worker[w] EXCEPT !.pc = "delRefresh", !.failed = TRUE]
      OBVIOUS
    <2>3. s.pc = "delRefresh"
      BY <2>2, Own DEF WorkerStates
    <2> QED
      BY <1>0, <1>1, <2>1, <2>2, <2>3 DEF PCs
  <1>6. CASE UserLogin(w)
    BY <1>6 DEF UserLogin, Idle
  <1>7. ASSUME NEW p \in Pairs, RefreshToken(w, p) PROVE \E s : Goto(w, s) /\ s.pc # "reply"
    <2>1. PICK s : s = [Idle EXCEPT !.pc = "pop", !.old = p]
      OBVIOUS
    <2>2. Goto(w, s) /\ s.pc = "pop"
      BY <1>7, <2>1 DEF RefreshToken, Idle
    <2> QED
      BY <2>2
  <1>8. ASSUME NEW p \in Pairs, NEW q \in Pairs \cup {NoPair}, Logout(w, p, q)
        PROVE  \E s : Goto(w, s) /\ s.pc # "reply"
    <2>1. PICK s : s = [Idle EXCEPT !.pc = "delAccess", !.old = p, !.named = q]
      OBVIOUS
    <2>2. Goto(w, s) /\ s.pc = "delAccess"
      BY <1>8, <2>1 DEF Logout, Idle
    <2> QED
      BY <2>2
  <1> QED
    BY <1>2, <1>3, <1>4, <1>5, <1>6, <1>7, <1>8 DEF Step

LEMMA RepliesKept == ASSUME IInv, Replies, [Next]_vars PROVE Replies'
  <1> SUFFICES ASSUME NEW w \in Workers, worker'[w].pc = "reply"
               PROVE  worker'[w].new \in refresh' \/ origin'[worker'[w].new] \in ended'
    BY DEF Replies
  <1>1. CASE worker'[w] = worker[w]
    <2>1. worker[w].new \in Issued \ delivered
      BY <1>1, Own DEF KeyOK, HoldsNew
    <2> QED
      BY <1>1, <2>1, UntoldStays DEF Replies
  <1>2. CASE SetRefresh(w)
    <2>0. worker \in [Workers -> WorkerStates]
      BY DEF IInv, TypeOK
    <2>1. Added(refresh, worker[w].new) /\ Proceed(w, "reply")
      BY <1>2, <2>0 DEF SetRefresh, Proceed, Goto, WorkerStates
    <2>2. worker'[w].new = worker[w].new
      BY <2>0, <2>1 DEF Proceed, Goto, WorkerStates
    <2> QED
      BY <2>1, <2>2 DEF Added
  <1>3. ASSUME NEW v \in Workers, \/ Step(v) \/ UserLogin(v) \/ Abort(v)
                                  \/ \E p \in Pairs : RefreshToken(v, p)
                                  \/ \E p \in Pairs, q \in Pairs \cup {NoPair} : Logout(v, p, q)
        PROVE  worker'[w] = worker[w] \/ SetRefresh(w)
    <2>1. CASE SetRefresh(v)
      <3>1. PICK c : Proceed(v, c)
        BY <2>1 DEF SetRefresh
      <3> QED
        BY <2>1, <3>1, OneMoves DEF Proceed
    <2>2. CASE ~SetRefresh(v)
      <3>1. PICK s : Goto(v, s) /\ s.pc # "reply"
        BY <1>3, <2>2, OnlyFromSetRefresh
      <3> QED
        BY <3>1, OneMoves
    <2> QED
      BY <2>1, <2>2
  <1>4. CASE UNCHANGED worker
    BY <1>1, <1>4
  <1> QED
    BY <1>1, <1>2, <1>3, <1>4 DEF Next, Expire, vars

LEMMA Counted ==
    ASSUME NEW S, IsFiniteSet(S), NEW n \in Nat, Cardinality(S) <= n, NEW T, NEW m,
           \/ m = n /\ T \subseteq S
           \/ m = n + 1 /\ \E x : T \subseteq S \cup {x}
    PROVE  IsFiniteSet(T) /\ Cardinality(T) <= m
  <1>1. CASE m = n /\ T \subseteq S
    <2>1. IsFiniteSet(T) /\ Cardinality(T) <= Cardinality(S)
      BY <1>1, FS_Subset
    <2> QED
      BY <1>1, <2>1, FS_CardinalityType
  <1>2. CASE m = n + 1 /\ \E x : T \subseteq S \cup {x}
    <2>1. PICK x : T \subseteq S \cup {x}
      BY <1>2
    <2>2. /\ IsFiniteSet(S \cup {x})
          /\ Cardinality(S \cup {x}) <= Cardinality(S) + 1
      <3>1. Cardinality(S) \in Nat
        BY FS_CardinalityType
      <3>2. /\ IsFiniteSet(S \cup {x})
            /\ Cardinality(S \cup {x}) = IF x \in S THEN Cardinality(S) ELSE Cardinality(S) + 1
        BY FS_AddElement
      <3> QED
        BY <3>1, <3>2
    <2>3. /\ IsFiniteSet(T) /\ Cardinality(T) <= Cardinality(S \cup {x})
      BY <2>1, <2>2, FS_Subset
    <2>4. /\ Cardinality(S) \in Nat /\ Cardinality(S \cup {x}) \in Nat /\ Cardinality(T) \in Nat
      BY <2>2, <2>3, FS_CardinalityType
    <2> QED
      BY <1>2, <2>2, <2>3, <2>4
  <1> QED
    BY <1>1, <1>2

(* Each failed call or crash costs at most one stale access session and at  *)
(* most one login, for any number of logins, requests and faults.           *)
THEOREM DamageBoundedHolds == Spec => []DamageBounded
  <1>1. Init => Replies /\ Damages
    <2> SUFFICES ASSUME Init PROVE Replies /\ Damages
      OBVIOUS
    <2>1. Strays = {} /\ Lost = {} /\ faults = 0 /\ Replies
      BY DEF Init, Strays, Lost, Replies, Idle
    <2> QED
      BY <2>1, FS_EmptySet DEF Damages
  <1>2. IInv /\ Replies /\ Damages /\ [Next]_vars => Replies' /\ Damages'
    <2> SUFFICES ASSUME IInv, Replies, Damages, [Next]_vars PROVE Damages'
      BY RepliesKept
    <2>1. Bearable
      BY StepCosts
    <2>2. faults \in Nat
      BY SessionAssumption DEF IInv, TypeOK
    <2>3. IsFiniteSet(Strays') /\ Cardinality(Strays') <= faults'
      BY <2>1, <2>2, Counted DEF Damages, Bearable
    <2>4. IsFiniteSet(Lost') /\ Cardinality(Lost') <= faults'
      BY <2>1, <2>2, Counted DEF Damages, Bearable
    <2> QED
      BY <2>3, <2>4 DEF Damages
  <1>3. IInv /\ Damages => DamageBounded
    <2> SUFFICES ASSUME IInv, Damages PROVE DamageBounded
      OBVIOUS
    <2>1. Stale \subseteq Strays
      BY Names DEF Stale, Strays
    <2>2. IsFiniteSet(Stale) /\ Cardinality(Stale) <= Cardinality(Strays)
      BY <2>1, FS_Subset DEF Damages
    <2>3. /\ Cardinality(Stale) \in Nat /\ Cardinality(Strays) \in Nat /\ faults \in Nat
      BY <2>2, FS_CardinalityType, SessionAssumption DEF Damages, IInv, TypeOK
    <2> QED
      BY <2>2, <2>3 DEF Damages, DamageBounded
  <1> QED
    BY <1>1, <1>2, <1>3, Inductive, PTL DEF Spec

=============================================================================
