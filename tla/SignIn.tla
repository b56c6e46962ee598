------------------------------- MODULE SignIn -------------------------------
(***************************************************************************)
(* One user's login: auth/auth.service.ts, auth/tokens.service.ts, the     *)
(* account check of common/auth.guard.ts and the administrator's actions   *)
(* on a user (admin/customers.controller.ts).                              *)
(*                                                                         *)
(* Requests of one user run side by side; a step is one statement on the   *)
(* database that others can come between.  Of a password the model keeps   *)
(* only whether one is set: a user who was invited has none.               *)
(* A session is the signed token a browser keeps: nothing is stored of it, *)
(* the guard compares the version in it with the user's row.               *)
(***************************************************************************)
EXTENDS Integers, FiniteSets

CONSTANTS
  NRequests,   \* requests in progress at one time
  NLinks,      \* emailed links
  MaxSessions, \* bound on the sessions the user keeps at one time
  MaxVer       \* bound on tokenVersion

ASSUME SignInAssumption == {NRequests, NLinks, MaxSessions, MaxVer} \subseteq Nat

\* Links are numbered in the order in which they are issued.
Link == 1 .. NLinks
Request == 1 .. NRequests

VARIABLES
  account,   \* the User row
  links,     \* the AuthToken rows
  uses,      \* how often the action behind a link was carried out
  sessions,  \* session tokens handed out
  challenge, \* a 2fa challenge token is out: the password was right, the code is missing
  reqs,      \* requests in progress
  cut        \* events so far that are to end every session

signInVars == <<account, links, uses, sessions, challenge, reqs, cut>>

Idle == [at |-> "idle"]
Types == {"INVITE", "RESET_PASSWORD"}

SignInInit ==
  /\ account = [joined |-> FALSE, ver |-> 0, disabled |-> FALSE, twofa |-> FALSE]
  /\ links = [l \in Link |-> [type |-> "INVITE", state |-> "unsent"]]
  /\ uses = [l \in Link |-> 0]
  /\ sessions = {}
  /\ challenge = FALSE
  /\ reqs = [r \in Request |-> Idle]
  /\ cut = 0

\* The guard: every request reads the row again.  A support session passes for a
\* disabled login as well.
Valid(s) == /\ s.ver = account.ver
            /\ account.joined
            /\ account.disabled => s.support

Open(type) == {l \in Link : links[l].type = type /\ links[l].state = "open"}
Mark(ls, state) == [l \in Link |-> IF l \in ls THEN [links[l] EXCEPT !.state = state] ELSE links[l]]
\* A request starts; slots for requests are all alike and the first free one is used.
Starts(r) == reqs[r] = Idle /\ \A q \in 1 .. r - 1 : reqs[q] # Idle
Becomes(r, q) == reqs' = [reqs EXCEPT ![r] = q]
\* The session a request signs once lastLoginAt is written, from the row it has read.
Signing(support) == [at |-> "sign", ver |-> account.ver, support |-> support, cut |-> cut]

-----------------------------------------------------------------------------
(* Links *)

\* resendInvite and forgotPassword look at the user before a link is issued.
AskLink(r, type) ==
  /\ Starts(r)
  /\ type = "INVITE" => ~account.joined
  /\ Becomes(r, [at |-> "void", type |-> type])
  /\ UNCHANGED <<account, links, uses, sessions, challenge, cut>>

\* issue, first statement of its transaction: the unused links of this type, as
\* committed so far, are voided; their rows stay locked until the commit.
IssueVoid(r) ==
  /\ reqs[r].at = "void"
  /\ Becomes(r, [at |-> "create", type |-> reqs[r].type, old |-> Open(reqs[r].type)])
  /\ UNCHANGED <<account, links, uses, sessions, challenge, cut>>

Locked(l) == \E r \in Request : reqs[r].at = "create" /\ l \in reqs[r].old

\* The commit: the old links are void and the new one is open.
IssueCreate(r, l) ==
  /\ reqs[r].at = "create"
  /\ links[l].state = "unsent"
  /\ \A k \in 1 .. l - 1 : links[k].state # "unsent"
  /\ links' = [Mark({o \in reqs[r].old : links[o].state = "open"}, "void")
                 EXCEPT ![l] = [type |-> reqs[r].type, state |-> "open"]]
  /\ Becomes(r, Idle)
  /\ UNCHANGED <<account, uses, sessions, challenge, cut>>

\* consume: the row is read and looked at (a link past its expiry is one that is not
\* clicked any more) ...
Click(r, l) ==
  /\ Starts(r)
  /\ links[l].state = "open"
  /\ Becomes(r, [at |-> "click", link |-> l])
  /\ UNCHANGED <<account, links, uses, sessions, challenge, cut>>

\* (mutant) ... and marked as used whatever has happened to it since
ConsumeRead(r) ==
  /\ reqs[r].at = "click"
  /\ LET l == reqs[r].link
     IN  /\ ~Locked(l)
         /\ links' = Mark({l}, "used")
         /\ Becomes(r, [at |-> "apply", link |-> l])
  /\ UNCHANGED <<account, uses, sessions, challenge, cut>>

\* ... and marked as used if it still is not; otherwise the request fails.
Consume(r) ==
  /\ reqs[r].at = "click"
  /\ LET l == reqs[r].link
     IN  /\ ~Locked(l)
         /\ IF links[l].state = "open"
            THEN /\ links' = Mark({l}, "used")
                 /\ Becomes(r, [at |-> "apply", link |-> l])
            ELSE /\ Becomes(r, Idle)
                 /\ UNCHANGED links
  /\ UNCHANGED <<account, uses, sessions, challenge, cut>>

\* resetPassword: the new password ends every session.
ResetPassword(r) ==
  /\ reqs[r].at = "apply"
  /\ links[reqs[r].link].type = "RESET_PASSWORD"
  /\ account.ver < MaxVer
  /\ account' = [account EXCEPT !.joined = TRUE, !.ver = @ + 1]
  /\ uses' = [uses EXCEPT ![reqs[r].link] = @ + 1]
  /\ cut' = cut + 1
  /\ Becomes(r, Idle)
  /\ UNCHANGED <<links, sessions, challenge>>

\* acceptInvite: the first password, and a session from the row just written.
AcceptInvite(r) ==
  /\ reqs[r].at = "apply"
  /\ links[reqs[r].link].type = "INVITE"
  /\ account' = [account EXCEPT !.joined = TRUE]
  /\ uses' = [uses EXCEPT ![reqs[r].link] = @ + 1]
  /\ Becomes(r, Signing(FALSE))
  /\ UNCHANGED <<links, sessions, challenge, cut>>

-----------------------------------------------------------------------------
(* Signing in *)

\* completeLogin on a row that was just read: a session, or a challenge for the code.
CompleteLogin(r) ==
  /\ ~account.disabled
  /\ challenge' = (challenge \/ account.twofa)
  /\ IF account.twofa THEN UNCHANGED reqs ELSE Becomes(r, Signing(FALSE))

\* login with the right password, on the portal; or redeemHandoff of a token that login on
\* the main site has signed.  That reads the row again, not the password: a token from
\* before a change of the password opens a session until it expires.  As the model does not
\* tell one password from another (a password once set stays set), both are one action.
Login(r) ==
  /\ Starts(r)
  /\ account.joined
  /\ CompleteLogin(r)
  /\ UNCHANGED <<account, links, uses, sessions, cut>>

\* impersonate, and redeemHandoff of its token: the platform's support becomes the
\* tenant's administrator, whose login may be disabled.
Impersonate(r) ==
  /\ Starts(r)
  /\ account.joined
  /\ Becomes(r, Signing(TRUE))
  /\ UNCHANGED <<account, links, uses, sessions, challenge, cut>>

\* The challenge is good for a few minutes, whatever becomes of the password; the row is
\* read again.
VerifyTwofaLogin(r) ==
  /\ Starts(r)
  /\ challenge
  /\ account.twofa
  /\ Becomes(r, Signing(FALSE))
  /\ UNCHANGED <<account, links, uses, sessions, challenge, cut>>

ChallengeExpires ==
  /\ challenge
  /\ challenge' = FALSE
  /\ UNCHANGED <<account, links, uses, sessions, reqs, cut>>

Sign(r) ==
  /\ reqs[r].at = "sign"
  /\ Cardinality(sessions) < MaxSessions
  /\ sessions' = sessions \cup {[ver |-> reqs[r].ver, support |-> reqs[r].support, cut |-> reqs[r].cut]}
  /\ Becomes(r, Idle)
  /\ UNCHANGED <<account, links, uses, challenge, cut>>

\* A browser forgets its session: signed out, or expired.
SignOut ==
  /\ \E s \in sessions : sessions' = sessions \ {s}
  /\ UNCHANGED <<account, links, uses, challenge, reqs, cut>>

-----------------------------------------------------------------------------
(* With a session *)

\* changePassword: the current password is compared ...
ChangeRead(r) ==
  /\ Starts(r)
  /\ \E s \in sessions : Valid(s)
  /\ Becomes(r, [at |-> "change"])
  /\ UNCHANGED <<account, links, uses, sessions, challenge, cut>>

\* ... and replaced; this device gets a session from the row as updated.
ChangeWrite(r) ==
  /\ reqs[r].at = "change"
  /\ account.ver < MaxVer
  /\ account' = [account EXCEPT !.joined = TRUE, !.ver = @ + 1]
  /\ cut' = cut + 1
  /\ Becomes(r, [at |-> "sign", ver |-> account'.ver, support |-> FALSE, cut |-> cut'])
  /\ UNCHANGED <<links, uses, sessions, challenge>>

\* twofaEnable and twofaDisable.
ToggleTwofa ==
  /\ \E s \in sessions : Valid(s)
  /\ account' = [account EXCEPT !.twofa = ~@]
  /\ UNCHANGED <<links, uses, sessions, challenge, reqs, cut>>

(* userAction: logout, disable and disable_2fa end every session. *)
Bump(acc) ==
  /\ account.ver < MaxVer
  /\ account' = [acc EXCEPT !.ver = @ + 1]
  /\ cut' = cut + 1
  /\ UNCHANGED <<links, uses, sessions, challenge, reqs>>

\* (mutant) a disabled login is refused by the guard anyway
DisableOnly ==
  /\ cut < MaxVer
  /\ account' = [account EXCEPT !.disabled = TRUE]
  /\ cut' = cut + 1
  /\ UNCHANGED <<links, uses, sessions, challenge, reqs>>

LogoutUser == Bump(account)
DisableUser == Bump([account EXCEPT !.disabled = TRUE])
DisableTwofa == Bump([account EXCEPT !.twofa = FALSE])

EnableUser ==
  /\ account' = [account EXCEPT !.disabled = FALSE]
  /\ UNCHANGED <<links, uses, sessions, challenge, reqs, cut>>

SignInNext ==
  \/ \E r \in Request :
       \/ \E type \in Types : AskLink(r, type)
       \/ \E l \in Link : IssueCreate(r, l) \/ Click(r, l)
       \/ IssueVoid(r) \/ Consume(r) \/ ResetPassword(r) \/ AcceptInvite(r)
       \/ Login(r) \/ Impersonate(r) \/ VerifyTwofaLogin(r) \/ Sign(r) \/ ChangeRead(r) \/ ChangeWrite(r)
  \/ ChallengeExpires \/ SignOut \/ ToggleTwofa
  \/ LogoutUser \/ DisableUser \/ DisableTwofa \/ EnableUser

SignInSpec == SignInInit /\ [][SignInNext]_signInVars

-----------------------------------------------------------------------------
(* "Conditional update so two simultaneous clicks can't both succeed"       *)
(* (tokens.service.ts:31): what a link stands for happens at most once, and *)
(* never for a link that a newer one has voided, also when clicks and the   *)
(* sending of links overlap.                                                *)
LinksWorkOnce ==
  \A l \in Link : uses[l] <= (IF links[l].state = "used" THEN 1 ELSE 0)

(* Whatever ends all sessions (a reset or changed password, an              *)
(* administrator's logout, a login disabled, also when it is enabled again) *)
(* ends those too that a login in progress signs afterwards from the row it *)
(* read before.  What a challenge or a handoff token obtained before opens  *)
(* afterwards is a session of its own, which is not ended: neither carries  *)
(* a version, so both work for their few minutes after a new password       *)
(* (auth.service.ts:109-116, 134-144).                                      *)
SessionsEnd == \A s \in sessions : Valid(s) => s.cut = cut
=============================================================================
