-------------------------------- MODULE SignIn --------------------------------
(***************************************************************************)
(* Google sign-in: login attempts, the callback that consumes one, the     *)
(* bindings of Google subjects to users, the hand-off to a signup and the  *)
(* workspace it creates.  Every statement is a step, a transaction is one.  *)
(* Attempts and hand-offs expire: one that did is one nobody presents any  *)
(* more.  Every account has a password, so that disconnectIdentity never   *)
(* finds the last way in.                                                  *)
(***************************************************************************)
EXTENDS Naturals, Sequences, FiniteSets

CONSTANTS
    Callers, Absent,
    Subjects, MailOf, \* Google accounts and their verified addresses
    Mails,            \* the addresses of the accounts there are, in order of creation
    States, Handles,  \* login attempts and signup hand-offs
    MaxCallbacks, MaxDisconnects

VARIABLES
    accounts,         \* nyst_users: the addresses, by user
    attempt,          \* nyst_login_attempts
    bindings,         \* nyst_federated_identities, in order of insertion
    handle,           \* nyst_google_signups
    sessions,         \* nyst_sessions, with what was disconnected before (history)
    call, callbacks, disconnects

vars == <<accounts, attempt, bindings, handle, sessions, call, callbacks, disconnects>>

Users == DOMAIN accounts

Idle == [pc |-> "idle", linking |-> Absent, subject |-> Absent, bySubject |-> Absent,
         byEmail |-> Absent, gone |-> {}]

Init ==
    /\ accounts = Mails
    /\ attempt = [s \in States |-> Absent]
    /\ bindings = <<>>
    /\ handle = [h \in Handles |-> Absent]
    /\ sessions = {}
    /\ call = [c \in Callers |-> Idle]
    /\ callbacks = 0
    /\ disconnects = 0

At(c, pc) == call[c].pc = pc
Become(c, new) == call' = [call EXCEPT ![c] = new]
Goto(c, pc) == Become(c, [call[c] EXCEPT !.pc = pc])
Return(c) == Become(c, Idle)

Live == {i \in DOMAIN bindings : bindings[i].live}

-----------------------------------------------------------------------------
(* What the database and resolveLink decide.                               *)

(* userByProviderSubject.                                                  *)
UserOf(subject) ==
    IF \E i \in Live : bindings[i].subject = subject
    THEN bindings[CHOOSE i \in Live : bindings[i].subject = subject].user
    ELSE Absent

(* userByEmail: the oldest account of the address.                         *)
UserWith(mail) ==
    LET found == {u \in Users : accounts[u] = mail} IN
    IF found = {} THEN Absent ELSE CHOOSE u \in found : \A v \in found : u <= v

(* The unique indexes over the live bindings.                              *)
Clash(subject, user) ==
    \E i \in Live : bindings[i].subject = subject \/ bindings[i].user = user

(* Defective form: an account with the address is taken for one's own.     *)
ResolveLinkByEmail(k) ==
    IF k.bySubject # Absent THEN [kind |-> "signed_in", user |-> k.bySubject]
    ELSE IF k.linking # Absent THEN [kind |-> "signed_in", user |-> k.linking]
    ELSE IF k.byEmail # Absent THEN [kind |-> "signed_in", user |-> k.byEmail]
    ELSE [kind |-> "new_account", user |-> Absent]

ResolveLink(k) ==
    IF k.bySubject # Absent
    THEN IF k.linking \in {Absent, k.bySubject}
         THEN [kind |-> "signed_in", user |-> k.bySubject]
         ELSE [kind |-> "subject_belongs_to_another_user", user |-> Absent]
    ELSE IF k.linking # Absent THEN [kind |-> "signed_in", user |-> k.linking]
    ELSE IF k.byEmail # Absent
         THEN [kind |-> "requires_existing_authentication", user |-> Absent]
    ELSE [kind |-> "new_account", user |-> Absent]

Outcome(c) == ResolveLink(call[c])

(* Somebody who is signed in connects a Google account nobody had.         *)
Connects(k) == k.bySubject = Absent /\ k.linking # Absent

-----------------------------------------------------------------------------
(* The row beginLoginAttempt inserts: linking is the user who is signed in. *)
LoginAttempt(linking) == [linking |-> linking, consumed |-> FALSE]

(* GET /auth/google/start: of the user who is signed in, or of nobody.     *)
BeginAttempt ==
    /\ \E s \in States, linking \in Users \union {Absent} :
          /\ attempt[s] = Absent
          /\ attempt' = [attempt EXCEPT ![s] = LoginAttempt(linking)]
    /\ UNCHANGED <<accounts, bindings, handle, sessions, call, callbacks, disconnects>>

(* consumeLoginAttempt, one UPDATE; a state that is spent is refused.       *)
ConsumeAttempt(c) ==
    /\ At(c, "idle") /\ callbacks < MaxCallbacks
    /\ callbacks' = callbacks + 1
    /\ \E s \in States :
          /\ attempt[s] # Absent /\ ~attempt[s].consumed
          /\ attempt' = [attempt EXCEPT ![s].consumed = TRUE]
          /\ Become(c, [Idle EXCEPT !.pc = "exchanging", !.linking = attempt[s].linking,
                                    !.gone = DOMAIN bindings \ Live])
    /\ UNCHANGED <<accounts, bindings, handle, sessions, disconnects>>

(* The token is verified: whom it names and that his address was verified  *)
(* is the provider's word; that it answers this attempt, its nonce's.      *)
Verify(c) ==
    /\ At(c, "exchanging")
    /\ \E subject \in Subjects :
          Become(c, [call[c] EXCEPT !.pc = "reading", !.subject = subject])
    /\ UNCHANGED <<accounts, attempt, bindings, handle, sessions, callbacks, disconnects>>

(* No code is exchanged, or no key verifies the token, also after the keys *)
(* were fetched once more: the attempt is spent.                           *)
Rejected(c) ==
    /\ At(c, "exchanging")
    /\ Return(c)
    /\ UNCHANGED <<accounts, attempt, bindings, handle, sessions, callbacks, disconnects>>

(* The two reads of Promise.all, which run in either order: what is left to*)
(* read is both, the subject's user, or the address's.                     *)
ReadSubject(c) ==
    /\ At(c, "reading") \/ At(c, "subject")
    /\ Become(c, [call[c] EXCEPT !.pc = IF At(c, "reading") THEN "email" ELSE "resolved",
                                 !.bySubject = UserOf(call[c].subject)])
    /\ UNCHANGED <<accounts, attempt, bindings, handle, sessions, callbacks, disconnects>>

ReadEmail(c) ==
    /\ At(c, "reading") \/ At(c, "email")
    /\ Become(c, [call[c] EXCEPT !.pc = IF At(c, "reading") THEN "subject" ELSE "resolved",
                                 !.byEmail = UserWith(MailOf[call[c].subject])])
    /\ UNCHANGED <<accounts, attempt, bindings, handle, sessions, callbacks, disconnects>>

Refuse(c) ==
    /\ At(c, "resolved") /\ Outcome(c).user = Absent /\ Outcome(c).kind # "new_account"
    /\ Return(c)
    /\ UNCHANGED <<accounts, attempt, bindings, handle, sessions, callbacks, disconnects>>

(* GoogleSignupService.begin: the verified identity waits for a name.      *)
Park(c) ==
    /\ At(c, "resolved") /\ Outcome(c).kind = "new_account"
    /\ \E h \in Handles :
          /\ handle[h] = Absent
          /\ handle' = [handle EXCEPT ![h] = [subject |-> call[c].subject, consumed |-> FALSE]]
    /\ Return(c)
    /\ UNCHANGED <<accounts, attempt, bindings, sessions, callbacks, disconnects>>

Bound(subject, user) ==
    bindings' = Append(bindings, [subject |-> subject, user |-> user, live |-> TRUE])

(* bindIdentity, for a user who connects this Google account first.        *)
BindIdentity(c) ==
    LET k == call[c] IN
    /\ At(c, "resolved") /\ Outcome(c).kind = "signed_in" /\ Connects(k)
    /\ IF Clash(k.subject, Outcome(c).user)
       THEN Return(c) /\ UNCHANGED bindings
       ELSE Bound(k.subject, Outcome(c).user)
            /\ Become(c, [k EXCEPT !.pc = "bound", !.linking = Outcome(c).user])
    /\ UNCHANGED <<accounts, attempt, handle, sessions, callbacks, disconnects>>

StartedBy(c, user) ==
    /\ sessions' = sessions \union {[user |-> user, subject |-> call[c].subject,
                                     gone |-> call[c].gone]}
    /\ Return(c)
    /\ UNCHANGED <<accounts, attempt, bindings, handle, callbacks, disconnects>>

(* createSession, for whoever the subject was bound to or is now.          *)
CreateSession(c) ==
    \/ /\ At(c, "resolved") /\ Outcome(c).kind = "signed_in" /\ ~Connects(call[c])
       /\ StartedBy(c, Outcome(c).user)
    \/ At(c, "bound") /\ StartedBy(c, call[c].linking)

-----------------------------------------------------------------------------
(* POST /signup/google: the hand-off is consumed, by one UPDATE.           *)
ConsumeHandle(c) ==
    /\ At(c, "idle")
    /\ \E h \in Handles :
          /\ handle[h] # Absent /\ ~handle[h].consumed
          /\ handle' = [handle EXCEPT ![h].consumed = TRUE]
          /\ Become(c, [Idle EXCEPT !.pc = "naming", !.subject = handle[h].subject,
                                    !.gone = DOMAIN bindings \ Live])
    /\ UNCHANGED <<accounts, attempt, bindings, sessions, callbacks, disconnects>>

(* createBootstrap: organisation, user and binding, or nothing; the name   *)
(* may be taken.  The hand-off is spent either way.                        *)
CreateBootstrap(c) ==
    LET k == call[c]  user == Len(accounts) + 1 IN
    /\ At(c, "naming")
    /\ \/ /\ ~Clash(k.subject, user)
          /\ accounts' = Append(accounts, MailOf[k.subject])
          /\ Bound(k.subject, user)
          /\ Become(c, [k EXCEPT !.pc = "bound", !.linking = user])
       \/ Return(c) /\ UNCHANGED <<accounts, bindings>>
    /\ UNCHANGED <<attempt, handle, sessions, callbacks, disconnects>>

(* disconnectIdentity.                                                     *)
Disconnect ==
    /\ disconnects < MaxDisconnects
    /\ disconnects' = disconnects + 1
    /\ \E i \in Live : bindings' = [bindings EXCEPT ![i].live = FALSE]
    /\ UNCHANGED <<accounts, attempt, handle, sessions, call, callbacks>>

(* The request dies between two statements.                                *)
Abandon(c) ==
    /\ call[c].pc \in {"bound", "resolved", "naming"}
    /\ Return(c)
    /\ UNCHANGED <<accounts, attempt, bindings, handle, sessions, callbacks, disconnects>>

Next ==
    \/ BeginAttempt \/ Disconnect
    \/ \E c \in Callers :
          \/ ConsumeAttempt(c) \/ Verify(c) \/ Rejected(c) \/ ReadSubject(c) \/ ReadEmail(c)
          \/ Refuse(c) \/ Park(c) \/ BindIdentity(c) \/ CreateSession(c)
          \/ ConsumeHandle(c) \/ CreateBootstrap(c) \/ Abandon(c)

Spec == Init /\ [][Next]_vars

-----------------------------------------------------------------------------
(* The types of the rows and of the calls.                                 *)
TypeOK ==
    /\ accounts \in Seq({Mails[u] : u \in DOMAIN Mails} \union {MailOf[s] : s \in Subjects})
    /\ \A s \in States : attempt[s] # Absent =>
          attempt[s] \in [linking : Users \union {Absent}, consumed : BOOLEAN]
    /\ bindings \in Seq([subject : Subjects, user : Users, live : BOOLEAN])
    /\ \A h \in Handles : handle[h] # Absent =>
          handle[h] \in [subject : Subjects, consumed : BOOLEAN]
    /\ \A s \in sessions : s.user \in Users /\ s.subject \in Subjects
    /\ \A c \in Callers :
          /\ call[c].pc \in {"idle", "exchanging", "reading", "subject", "email", "resolved",
                             "bound", "naming"}
          /\ {call[c].linking, call[c].bySubject, call[c].byEmail} \subseteq
                 Users \union {Absent}

(* A Google account leads to one user and a user to one Google account,    *)
(* whoever connects, disconnects and signs up at the same time; and a      *)
(* session was started only for a user its Google account was bound to     *)
(* while the callback ran, never for one that has the same address.        *)
IdentitiesHold ==
    /\ \A i, j \in Live :
          bindings[i].subject = bindings[j].subject \/ bindings[i].user = bindings[j].user
             => i = j
    /\ \A s \in sessions : \E i \in DOMAIN bindings \ s.gone :
          bindings[i].subject = s.subject /\ bindings[i].user = s.user
=============================================================================
