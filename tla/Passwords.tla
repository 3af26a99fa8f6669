------------------------------ MODULE Passwords ------------------------------
(***************************************************************************)
(* The password of a user: logins, reset requests, the links they send and *)
(* the trigger that a new password fires.  Every statement is a step.  The  *)
(* statements name the user, so that one user is all of them.  A link that *)
(* expired is one nobody presents any more.                                *)
(***************************************************************************)
EXTENDS Naturals, Sequences, FiniteSets

CONSTANTS
    Callers, Hour,
    MAX_REQUESTS_PER_HOUR,
    MaxEntries, MaxTime      \* bounds: requests begun, the clock

VARIABLES
    password,                \* how often nyst_users.password_hash was set
    links,                   \* nyst_password_resets, in order of insertion
    admitted,                \* nyst_sessions: the password each was inserted under
    entering, entries,
    now

vars == <<password, links, admitted, entering, entries, now>>

Idle == [pc |-> "idle", link |-> 0]

Init ==
    /\ password = 0 /\ links = <<>> /\ admitted = {}
    /\ entering = [c \in Callers |-> Idle]
    /\ entries = 0
    /\ now = 0

At(c, pc) == entering[c].pc = pc
Become(c, pc, link) == entering' = [entering EXCEPT ![c] = [pc |-> pc, link |-> link]]
Return(c) == Become(c, "idle", 0)

Begin(c, pc, link) ==
    /\ At(c, "idle") /\ entries < MaxEntries
    /\ entries' = entries + 1
    /\ Become(c, pc, link)
    /\ UNCHANGED <<password, admitted, now>>

(* A link that no password was changed with and nothing superseded.        *)
Usable(l) == ~l.consumed /\ ~l.invalidated

Superseded(all) ==
    [i \in DOMAIN all |-> IF ~all[i].consumed THEN [all[i] EXCEPT !.invalidated = TRUE]
                          ELSE all[i]]

Recent == {i \in DOMAIN links : links[i].at + Hour > now}

-----------------------------------------------------------------------------
(* login: the hash is read and compared, then the session inserted.        *)
Compare(c) == Begin(c, "admitting", 0) /\ UNCHANGED links

InsertSession(c) ==
    /\ At(c, "admitting")
    /\ admitted' = admitted \union {password}
    /\ Return(c)
    /\ UNCHANGED <<password, links, entries, now>>

(* Of the sessions of one password the last one is ended, or another one.  *)
DeleteSession ==
    /\ \E p \in admitted : admitted' \in {admitted, admitted \ {p}}
    /\ UNCHANGED <<password, links, entering, entries, now>>

(* requestReset: silently nothing when there were too many.                *)
CountRecent(c) ==
    /\ Cardinality(Recent) < MAX_REQUESTS_PER_HOUR
    /\ Begin(c, "superseding", 0)
    /\ UNCHANGED links

SupersedeLinks(c) ==
    /\ At(c, "superseding")
    /\ links' = Superseded(links)
    /\ Become(c, "issuing", 0)
    /\ UNCHANGED <<password, admitted, entries, now>>

IssueLink(c) ==
    /\ At(c, "issuing")
    /\ links' = Append(links, [at |-> now, under |-> password, consumed |-> FALSE,
                               invalidated |-> FALSE, changed |-> 0])
    /\ Return(c)
    /\ UNCHANGED <<password, admitted, entries, now>>

(* completeReset: one conditional UPDATE consumes the link ...             *)
ConsumeLink(c) ==
    \E i \in DOMAIN links :
        /\ Usable(links[i])
        /\ Begin(c, "changing", i)
        /\ links' = [links EXCEPT ![i].consumed = TRUE]

(* ... another sets the password, and the trigger ends the sessions and    *)
(* the links there are.                                                    *)
ChangePassword(c) ==
    LET i == entering[c].link IN
    /\ At(c, "changing")
    /\ password' = password + 1
    /\ admitted' = {}
    /\ links' = Superseded([links EXCEPT ![i].changed = @ + 1])
    /\ Return(c)
    /\ UNCHANGED <<entries, now>>

(* The process dies between two statements: the link stays consumed.       *)
Abandon(c) ==
    /\ ~At(c, "idle")
    /\ Return(c)
    /\ UNCHANGED <<password, links, admitted, entries, now>>

Tick == now < MaxTime /\ now' = now + 1
        /\ UNCHANGED <<password, links, admitted, entering, entries>>

Next ==
    \/ DeleteSession \/ Tick
    \/ \E c \in Callers :
          \/ Compare(c) \/ InsertSession(c)
          \/ CountRecent(c) \/ SupersedeLinks(c) \/ IssueLink(c)
          \/ ConsumeLink(c) \/ ChangePassword(c) \/ Abandon(c)

Spec == Init /\ [][Next]_vars

-----------------------------------------------------------------------------
(* The types of the rows.                                                  *)
TypeOK ==
    /\ password \in Nat /\ admitted \subseteq Nat
    /\ links \in Seq([at : Nat, under : Nat, consumed : BOOLEAN, invalidated : BOOLEAN,
                      changed : Nat])
    /\ entering \in [Callers -> [pc : {"idle", "admitting", "superseding", "issuing",
                                       "changing"}, link : Nat]]

(* A link changes the password at most once, however often and at once it  *)
(* is presented; a link that still works was issued, and a session          *)
(* inserted, since the password last changed; and requests that race each  *)
(* other exceed the hourly limit by no more than the requests that raced.  *)
PasswordHolds ==
    /\ \A i \in DOMAIN links :
          /\ links[i].changed <= 1
          /\ links[i].changed = 1 => links[i].consumed
          /\ Usable(links[i]) => links[i].under = password
    /\ admitted \subseteq {password}
    /\ Cardinality(Recent) <= MAX_REQUESTS_PER_HOUR - 1 + Cardinality(Callers)
=============================================================================
