--------------------------- MODULE AccountSession ---------------------------
(***************************************************************************)
(* The signed-in account of one browser tab (shared/auth) and the account  *)
(* settings that can change it (features/masters/accounts): the read of    *)
(* the session, the leases management work runs under, the recovery after  *)
(* a refusal, and the commands an administrator sends about other accounts *)
(* and about their own.  Another administrator changes the role, another   *)
(* tab signs somebody else in, answers are delayed, and a read that was    *)
(* overtaken is put back to what it showed before.                         *)
(*                                                                         *)
(* The code compares counters to tell whether a lease is still current; a  *)
(* lease here keeps the outcome of each comparison instead.                *)
(***************************************************************************)
EXTENDS Integers, FiniteSets

CONSTANTS AcRequests, \* subset of {"other", "operator", "user", "disable"}
          AcCommands, \* command slots: one per command that may still be under way
          AcMoves     \* how often somebody else changes the session

ASSUME AccountAssumption ==
  /\ AcRequests \subseteq {"other", "operator", "user", "disable"}
  /\ AcCommands \cap {"list", "none"} = {}
  /\ AcMoves \in Nat

Roles == {"user", "operator", "admin"}
NoOne == [acc |-> "nobody", role |-> "user", ver |-> 0]
Work == AcCommands \cup {"list"}

VARIABLES acServer,  \* [cookie, role, ver]: the session, and the role of "me"
          acRead,    \* the auth-me query: [status, data, rejected, fetching]
          acCall,    \* its request: [stage, kind, data], and the state to go back to
          acKnown,   \* Authorization.confirmed: [acc, role]
          acHandled, \* recoveryHandled
          acRecover, \* recovering: "no", "cancelled", "reading"
          acApply,   \* the command whose own role is being applied, or "none"
          acLease,   \* what each piece of work was begun under
          acCmd,     \* [stage, req, kind, ver] of each command: ver is the change it made
          acList,    \* the account list: [stage, kind, rejected]
          acMoves,   \* changes by others so far
          acRevoked, \* commands whose permission the tab saw end (history)
          acOwn      \* the version of the own role that was applied (history)

acvars == <<acServer, acRead, acCall, acKnown, acHandled, acRecover, acApply, acLease,
            acCmd, acList, acMoves, acRevoked, acOwn>>

-----------------------------------------------------------------------------
(* Permissions.                                                            *)

HasOperationsRole(role) == role \in {"operator", "admin"}
HasAdminRole(role) == role = "admin"

Recovering == acRecover # "no"
Ready == acRead.status = "success" /\ ~acRead.fetching

CanAdmin == /\ HasAdminRole(acKnown.role) /\ Ready
            /\ ~Recovering /\ acApply = "none"
CanOperate == /\ HasOperationsRole(acKnown.role) /\ Ready
              /\ ~Recovering /\ acApply = "none"

NoLease == [acc |-> "nobody", gen |-> FALSE, rev |-> FALSE, recov |-> FALSE]
CaptureLease == [acc |-> acKnown.acc, gen |-> TRUE, rev |-> TRUE, recov |-> TRUE]

IsSameAccount(lease) == lease.acc = acKnown.acc
\* A lease that outlives the permission it was begun under.
IsCurrentAgain(lease) == IsSameAccount(lease) /\ HasAdminRole(acKnown.role)
IsCurrent(lease) == IsSameAccount(lease) /\ HasAdminRole(acKnown.role) /\ lease.gen
CanCommit(lease) == IsCurrent(lease) /\ CanAdmin

AuthenticatedRoute ==
  IF acRead.status = "pending" /\ acRead.fetching THEN "checking"
  ELSE IF acRead.status = "error" /\ acRead.rejected THEN "login"
  ELSE IF acRead.status = "error" /\ acRead.data = NoOne THEN "unavailable"
  ELSE "shown"

OperationsRoute ==
  IF AuthenticatedRoute # "shown" \/ ~HasOperationsRole(acKnown.role) THEN "denied"
  ELSE IF ~CanOperate THEN "paused" ELSE "shown"

-----------------------------------------------------------------------------
(* The Authorization owner.                                                *)

\* What the session read now allows.
SessionOf(read) == IF read.rejected \/ read.data = NoOne
                   THEN [acc |-> "nobody", role |-> "user"]
                   ELSE [acc |-> read.data.acc, role |-> read.data.role]

LostBy(next) == \/ acKnown.acc # "nobody" /\ next.acc # acKnown.acc
                \/ HasAdminRole(acKnown.role) /\ ~HasAdminRole(next.role)

\* updateConfirmed: leases end, and the protected reads are dropped with them.
UpdateConfirmed(next) ==
  /\ acKnown' = next
  /\ acRevoked' = acRevoked \cup
       {c \in AcCommands : acLease[c].acc # "nobody"
                           /\ (next.acc # acLease[c].acc \/ ~HasAdminRole(next.role))}
  /\ IF LostBy(next) THEN acList' = [stage |-> "idle", kind |-> "ok", rejected |-> FALSE]
                   ELSE UNCHANGED acList

Ended(next, lease) == IF LostBy(next) THEN [lease EXCEPT !.gen = FALSE] ELSE lease

\* An accepted session read: a new revision, and a later refusal may recover again.
AcceptSession(read) ==
  /\ acRead' = read
  /\ UpdateConfirmed(SessionOf(read))
  /\ acLease' = [w \in Work |-> [Ended(SessionOf(read), acLease[w]) EXCEPT !.rev = FALSE]]
  /\ acHandled' = (Recovering /\ acHandled)

NoCall == [stage |-> "none", kind |-> "ok", data |-> NoOne, before |-> "pending", was |-> FALSE]

\* A cancelled read that is still shown as running.
RevertedRunning == [acRead EXCEPT !.rejected = acCall.was]

\* Cancelling a read puts the query back to what it showed before.
Reverted == IF acCall.stage = "none" THEN acRead
            ELSE [acRead EXCEPT !.fetching = FALSE, !.status = acCall.before,
                                !.rejected = acCall.was]

Asking == /\ acRead' = [acRead EXCEPT !.fetching = TRUE,
                          !.status = IF acRead.data = NoOne THEN "pending" ELSE @,
                          !.rejected = acRead.data # NoOne /\ @]
          /\ acCall' = [NoCall EXCEPT !.stage = "sent", !.before = acRead.status,
                                      !.was = acRead.rejected]

\* recheck: the read under way is cancelled and asked again.
Recheck ==
  IF Recovering THEN UNCHANGED <<acRecover, acHandled, acLease, acRead, acCall>>
  ELSE /\ acRecover' = "cancelled"
       /\ acHandled' = TRUE
       /\ acLease' = [w \in Work |-> [acLease[w] EXCEPT !.recov = FALSE]]
       /\ acRead' = Reverted
       /\ acCall' = NoCall

\* reportError: one recovery per deliberate act, for work that is still current.
ReportError(kind, lease) ==
  IF kind = "refused" /\ IsCurrent(lease) /\ lease.recov /\ ~Recovering /\ ~acHandled
  THEN Recheck ELSE UNCHANGED <<acRecover, acHandled, acLease, acRead, acCall>>

-----------------------------------------------------------------------------
(* The session read.                                                       *)

\* The first read, and the retries the notices offer.
ReadSession ==
  /\ ~acRead.fetching
  /\ \/ acRead.status = "pending"
     \/ acRead.status = "error" /\ AuthenticatedRoute \in {"unavailable", "login"}
  /\ Asking
  /\ UNCHANGED <<acServer, acKnown, acHandled, acRecover, acApply, acLease, acCmd, acList,
                 acMoves, acRevoked, acOwn>>

\* OperationsRoute: a paused page with an error offers a recheck.
RetryPaused ==
  /\ OperationsRoute = "paused" /\ acRead.status = "error" /\ ~acRead.fetching /\ ~Recovering
  /\ Recheck
  /\ UNCHANGED <<acServer, acKnown, acApply, acCmd, acList, acMoves, acRevoked, acOwn>>

RefreshAuthentication ==
  /\ acRecover = "cancelled"
  /\ acRecover' = "reading"
  /\ IF acRead.fetching THEN UNCHANGED <<acRead, acCall>> ELSE Asking
  /\ UNCHANGED <<acServer, acKnown, acHandled, acApply, acLease, acCmd, acList, acMoves,
                 acRevoked, acOwn>>

\* The server reads the cookie's session and its account.
ServeSession == \E kind \in {"ok", "lost"} :
  /\ acCall.stage = "sent"
  /\ acCall' = [acCall EXCEPT !.stage = "served",
       !.kind = IF kind = "lost" THEN "lost"
                ELSE IF acServer.cookie = "none" THEN "refused" ELSE "ok",
       !.data = IF kind = "ok" /\ acServer.cookie # "none"
                THEN [acc |-> acServer.cookie, ver |-> acServer.ver,
                      role |-> IF acServer.cookie = "me" THEN acServer.role ELSE "admin"]
                ELSE NoOne]
  /\ UNCHANGED <<acServer, acRead, acKnown, acHandled, acRecover, acApply, acLease, acCmd,
                 acList, acMoves, acRevoked, acOwn>>

\* The answer names another account: everything of the old one is cleared first.
PrincipalChanges ==
  /\ acCall.stage = "served" /\ acCall.kind = "ok"
  /\ acRead.data # NoOne /\ acCall.data.acc # acRead.data.acc
  /\ acCall' = [acCall EXCEPT !.stage = "clearing"]
  /\ acList' = [stage |-> "idle", kind |-> "ok", rejected |-> FALSE]
  /\ UNCHANGED <<acServer, acRead, acKnown, acHandled, acRecover, acApply, acLease, acCmd,
                 acMoves, acRevoked, acOwn>>

SessionAccepted ==
  /\ \/ acCall.stage = "clearing"
     \/ /\ acCall.stage = "served" /\ acCall.kind = "ok"
        /\ acRead.data = NoOne \/ acCall.data.acc = acRead.data.acc
  /\ AcceptSession([status |-> "success", data |-> acCall.data, rejected |-> FALSE,
                    fetching |-> FALSE])
  /\ acCall' = NoCall
  /\ acRecover' = IF acRecover = "reading" THEN "no" ELSE acRecover
  /\ UNCHANGED <<acServer, acApply, acCmd, acMoves, acOwn>>

\* A refusal ends every permission; a transport failure ends none.
SessionFailed ==
  /\ acCall.stage = "served" /\ acCall.kind # "ok"
  /\ LET read == [acRead EXCEPT !.status = "error", !.fetching = FALSE,
                                !.rejected = acCall.kind = "refused"]
     IN /\ acRead' = read
        /\ IF read.rejected
           THEN /\ UpdateConfirmed(SessionOf(read))
                /\ acLease' = [w \in Work |-> Ended(SessionOf(read), acLease[w])]
           ELSE UNCHANGED <<acKnown, acRevoked, acList, acLease>>
  /\ acCall' = NoCall
  /\ acRecover' = IF acRecover = "reading" THEN "no" ELSE acRecover
  /\ UNCHANGED <<acServer, acHandled, acApply, acCmd, acMoves, acOwn>>

-----------------------------------------------------------------------------
(* The account list, a protected read.                                     *)

\* begin: work starts only while the permission is confirmed.
Begins == CanAdmin
CanReadProtected == CanAdmin /\ ~acList.rejected

FetchList(refresh) ==
  /\ OperationsRoute = "shown" /\ acList.stage = "idle"
  /\ IF refresh THEN Begins ELSE CanReadProtected
  /\ acList' = [stage |-> "sent", kind |-> "ok", rejected |-> acList.rejected]
  /\ acLease' = [acLease EXCEPT !["list"] = CaptureLease]
  /\ acHandled' = (acHandled /\ ~refresh)
  /\ UNCHANGED <<acServer, acRead, acCall, acKnown, acRecover, acApply, acCmd, acMoves,
                 acRevoked, acOwn>>

\* The list is read when the panel opens, after a command, and on the user's request.
ReadList == FetchList(FALSE)
RefreshList == FetchList(TRUE)

\* The server authorises each request by the account as it is when it arrives.
Authorised == \/ acServer.cookie = "me" /\ HasAdminRole(acServer.role)
              \/ acServer.cookie = "peer"

ServeList ==
  /\ acList.stage = "sent"
  /\ acList' = [acList EXCEPT !.stage = "served", !.kind = IF Authorised THEN "ok" ELSE "refused"]
  /\ UNCHANGED <<acServer, acRead, acCall, acKnown, acHandled, acRecover, acApply, acLease,
                 acCmd, acMoves, acRevoked, acOwn>>

ListArrives ==
  /\ acList.stage = "served"
  /\ acList' = [acList EXCEPT !.stage = "idle", !.rejected = acList.kind = "refused"]
  /\ ReportError(acList.kind, acLease["list"])
  /\ UNCHANGED <<acServer, acKnown, acApply, acCmd, acMoves, acRevoked, acOwn>>

-----------------------------------------------------------------------------
(* Commands.                                                               *)

Idle == [stage |-> "idle", req |-> "other", kind |-> "ok", ver |-> 0]
Underway(c) == acCmd[c].stage \in {"begun", "sent", "served", "waiting", "applying"}
PendingUpdate(c) == Underway(c) /\ IsCurrent(acLease[c])

\* The panel disables every command while one that is still current is under way.
OffersCommands == OperationsRoute = "shown" /\ \A d \in AcCommands : ~PendingUpdate(d)

\* An older result that was not applied yet is replaced by the new command's.
BeginCommand(c, req) ==
  /\ OffersCommands /\ Begins
  /\ acCmd[c].stage \in {"idle", "saved"}
  /\ acHandled' = FALSE
  /\ acLease' = [acLease EXCEPT ![c] = CaptureLease]
  /\ acRevoked' = acRevoked \ {c}
  /\ acCmd' = [d \in AcCommands |->
                 IF d = c THEN [Idle EXCEPT !.stage = "begun", !.req = req]
                 ELSE IF acCmd[d].stage = "saved" THEN Idle ELSE acCmd[d]]
  /\ UNCHANGED <<acServer, acRead, acCall, acKnown, acRecover, acApply, acList, acMoves, acOwn>>

\* mutationFn, and the queued Action: a lease that ended sends nothing.
SendCommand(c) ==
  /\ acCmd[c].stage = "begun"
  /\ acCmd' = [acCmd EXCEPT ![c] = IF CanCommit(acLease[c])
                                   THEN [@ EXCEPT !.stage = "sent"] ELSE Idle]
  /\ UNCHANGED <<acServer, acRead, acCall, acKnown, acHandled, acRecover, acApply, acLease,
                 acList, acMoves, acRevoked, acOwn>>

\* Disabling the account also ends its sessions.
AfterRequest(req) ==
  [acServer EXCEPT !.ver = IF req \in {"operator", "user", "disable"} THEN @ + 1 ELSE @,
                   !.role = IF req \in {"operator", "user"} THEN req ELSE @,
                   !.cookie = IF req = "disable" THEN "none" ELSE @]

\* A command also carries the token of the session the tab knew when it was begun.
AcceptsCommand(c) == Authorised /\ acServer.cookie = acLease[c].acc

\* The requests about the own account are about the account the lease names.
ServeCommand(c) == \E lost \in BOOLEAN :
  /\ acCmd[c].stage = "sent"
  /\ acCmd' = [acCmd EXCEPT ![c].stage = "served",
       ![c].kind = IF ~AcceptsCommand(c) THEN "refused" ELSE IF lost THEN "lost" ELSE "ok",
       ![c].ver = acServer.ver + 1]
  /\ acServer' = IF AcceptsCommand(c) /\ acServer.cookie = "me"
                 THEN AfterRequest(acCmd[c].req) ELSE acServer
  /\ UNCHANGED <<acRead, acCall, acKnown, acHandled, acRecover, acApply, acLease, acList,
                 acMoves, acRevoked, acOwn>>

CommandFails(c) ==
  /\ acCmd[c].stage = "served" /\ acCmd[c].kind # "ok"
  /\ acCmd' = [acCmd EXCEPT ![c] = Idle]
  /\ ReportError(acCmd[c].kind, acLease[c])
  /\ UNCHANGED <<acServer, acKnown, acApply, acList, acMoves, acRevoked, acOwn>>

\* accountUpdateConsequence, for an answer that still belongs to the account.
Consequence(c) ==
  IF acLease[c].acc # "me" \/ acCmd[c].req = "other" \/ ~IsSameAccount(acLease[c]) THEN "none"
  ELSE IF acCmd[c].req = "disable" THEN "selfDisabled" ELSE "selfRoleChanged"

AcceptsSelfRole(lease) == lease.rev /\ IsCurrent(lease)

CommandSaved(c) ==
  /\ acCmd[c].stage = "served" /\ acCmd[c].kind = "ok" /\ Consequence(c) = "none"
  /\ acCmd' = [acCmd EXCEPT ![c].stage = "saved"]
  /\ UNCHANGED <<acServer, acRead, acCall, acKnown, acHandled, acRecover, acApply, acLease,
                 acList, acMoves, acRevoked, acOwn>>

\* The own session is read again before the command ends.
CommandRechecks(c) ==
  /\ acCmd[c].stage = "served" /\ acCmd[c].kind = "ok"
  /\ \/ Consequence(c) = "selfDisabled"
     \/ Consequence(c) = "selfRoleChanged" /\ ~AcceptsSelfRole(acLease[c])
  /\ acCmd' = [acCmd EXCEPT ![c].stage = IF Recovering THEN "saved" ELSE "waiting"]
  /\ Recheck
  /\ UNCHANGED <<acServer, acKnown, acApply, acList, acMoves, acRevoked, acOwn>>

RecheckEnded(c) ==
  /\ acCmd[c].stage = "waiting" /\ ~Recovering
  /\ acCmd' = [acCmd EXCEPT ![c].stage = "saved"]
  /\ UNCHANGED <<acServer, acRead, acCall, acKnown, acHandled, acRecover, acApply, acLease,
                 acList, acMoves, acRevoked, acOwn>>

\* A session read that is left running when the own role is applied.
KeepsReading == UNCHANGED <<acRead, acCall, acRecover>>
CancelAuthentication == /\ acRead' = Reverted
                        /\ acCall' = NoCall
                        /\ acRecover' = IF acRecover = "reading" THEN "no" ELSE acRecover

\* acceptSelfRole: commands pause, and the read that may still show the old role ends.
AcceptSelfRole(c) ==
  /\ acCmd[c].stage = "served" /\ acCmd[c].kind = "ok"
  /\ Consequence(c) = "selfRoleChanged" /\ AcceptsSelfRole(acLease[c])
  /\ acApply = "none"
  /\ acApply' = c
  /\ acCmd' = [acCmd EXCEPT ![c].stage = "applying"]
  /\ CancelAuthentication
  /\ UNCHANGED <<acServer, acKnown, acHandled, acLease, acList, acMoves, acRevoked, acOwn>>

ReplaceSelfRole(c) ==
  /\ acCmd[c].stage = "applying"
  /\ acCmd' = [acCmd EXCEPT ![c].stage = "saved"]
  /\ acApply' = "none"
  /\ IF IsSameAccount(acLease[c]) /\ acLease[c].rev /\ acRead.data.acc = acLease[c].acc
     THEN /\ AcceptSession([acRead EXCEPT !.status = "success", !.rejected = FALSE,
                              !.data.role = acCmd[c].req, !.data.ver = acCmd[c].ver])
          /\ acCall' = [acCall EXCEPT !.before = "success", !.was = FALSE]
          /\ acOwn' = acCmd[c].ver
     ELSE UNCHANGED <<acRead, acKnown, acRevoked, acList, acLease, acHandled, acCall, acOwn>>
  /\ UNCHANGED <<acServer, acRecover, acMoves>>

\* The receipt of a command waits until the permission is confirmed again.
ApplyReceipt(c) ==
  /\ OperationsRoute = "shown"
  /\ acCmd[c].stage = "saved" /\ CanCommit(acLease[c])
  /\ acCmd' = [acCmd EXCEPT ![c].stage = "caching"]
  /\ acList' = [acList EXCEPT !.stage = "idle"]
  /\ UNCHANGED <<acServer, acRead, acCall, acKnown, acHandled, acRecover, acApply, acLease,
                 acMoves, acRevoked, acOwn>>

\* cacheSavedAccount, after the list's read was cancelled.
CacheSavedAccount(c) ==
  /\ acCmd[c].stage = "caching"
  /\ acCmd' = [acCmd EXCEPT ![c].stage = IF CanCommit(acLease[c]) THEN "cached" ELSE "saved"]
  /\ UNCHANGED <<acServer, acRead, acCall, acKnown, acHandled, acRecover, acApply, acLease,
                 acList, acMoves, acRevoked, acOwn>>

\* invalidateAdminAccountCaches: the list and the session are read again.
InvalidateAccounts(c) ==
  /\ acCmd[c].stage = "cached"
  /\ acCmd' = [acCmd EXCEPT ![c] = Idle]
  /\ IF CanReadProtected
     THEN /\ acList' = [stage |-> "sent", kind |-> "ok", rejected |-> FALSE]
          /\ acLease' = [acLease EXCEPT !["list"] = CaptureLease]
     ELSE UNCHANGED <<acList, acLease>>
  /\ IF acRead.fetching
     THEN /\ acCall' = [acCall EXCEPT !.stage = "sent", !.data = NoOne, !.kind = "ok"]
          /\ UNCHANGED acRead
     ELSE Asking
  /\ UNCHANGED <<acServer, acKnown, acHandled, acRecover, acApply, acMoves, acRevoked, acOwn>>

-----------------------------------------------------------------------------
(* Other tabs and other administrators, and a page load.                   *)

OthersChange ==
  /\ acMoves < AcMoves /\ acMoves' = acMoves + 1
  /\ \/ \E role \in Roles \ {acServer.role} :
          acServer' = [acServer EXCEPT !.role = role, !.ver = @ + 1]
     \/ \E cookie \in {"me", "peer", "none"} \ {acServer.cookie} :
          acServer' = [acServer EXCEPT !.cookie = cookie, !.ver = @ + 1]
  /\ UNCHANGED <<acRead, acCall, acKnown, acHandled, acRecover, acApply, acLease, acCmd,
                 acList, acRevoked, acOwn>>

AccountInit ==
  /\ acServer = [cookie |-> "me", role |-> "admin", ver |-> 1]
  /\ acRead = [status |-> "pending", data |-> NoOne, rejected |-> FALSE, fetching |-> FALSE]
  /\ acCall = NoCall
  /\ acKnown = [acc |-> "nobody", role |-> "user"]
  /\ acHandled = FALSE /\ acRecover = "no" /\ acApply = "none"
  /\ acLease = [w \in Work |-> NoLease]
  /\ acCmd = [c \in AcCommands |-> Idle]
  /\ acList = [stage |-> "idle", kind |-> "ok", rejected |-> FALSE]
  /\ acMoves = 0 /\ acRevoked = {} /\ acOwn = 0

AccountNext ==
  \/ ReadSession \/ RetryPaused \/ RefreshAuthentication
  \/ ServeSession \/ PrincipalChanges \/ SessionAccepted \/ SessionFailed
  \/ ReadList \/ RefreshList \/ ServeList \/ ListArrives
  \/ \E c \in AcCommands :
       \/ \E req \in AcRequests : BeginCommand(c, req)
       \/ SendCommand(c) \/ ServeCommand(c) \/ CommandFails(c) \/ CommandSaved(c)
       \/ CommandRechecks(c) \/ RecheckEnded(c) \/ AcceptSelfRole(c) \/ ReplaceSelfRole(c)
       \/ ApplyReceipt(c) \/ CacheSavedAccount(c) \/ InvalidateAccounts(c)
  \/ OthersChange

AccountSpec == AccountInit /\ [][AccountNext]_acvars

-----------------------------------------------------------------------------

Accounts == {"me", "peer", "nobody"}
Statuses == {"pending", "success", "error"}
Answers == {"ok", "lost", "refused"}
CommandStages == {"idle", "begun", "sent", "served", "waiting", "applying", "saved", "caching",
                  "cached"}

Servers == [cookie : {"me", "peer", "none"}, role : Roles, ver : Nat]
Sessions == [acc : Accounts, role : Roles, ver : Nat]
Reads == [status : Statuses, data : Sessions, rejected : BOOLEAN, fetching : BOOLEAN]
Calls == [stage : {"none", "sent", "served", "clearing"}, kind : Answers, data : Sessions,
          before : Statuses, was : BOOLEAN]
Leases == [acc : Accounts, gen : BOOLEAN, rev : BOOLEAN, recov : BOOLEAN]
Commands == [stage : CommandStages, kind : Answers, ver : Nat,
             req : {"other", "operator", "user", "disable"}]
AccountLists == [stage : {"idle", "sent", "served"}, kind : Answers, rejected : BOOLEAN]

\* Every variable has its type, and a read is under way exactly while the query fetches.
AccountTypeOK ==
  /\ acServer \in Servers /\ acRead \in Reads /\ acCall \in Calls
  /\ (acCall.stage # "none") <=> acRead.fetching
  /\ acKnown \in [acc : Accounts, role : Roles]
  /\ acHandled \in BOOLEAN /\ acRecover \in {"no", "cancelled", "reading"}
  /\ acApply \in AcCommands \cup {"none"}
  /\ acLease \in [Work -> Leases] /\ acCmd \in [AcCommands -> Commands]
  /\ acList \in AccountLists
  /\ acMoves \in 0..AcMoves /\ acRevoked \subseteq AcCommands /\ acOwn \in Nat

\* A command that was begun under a permission the tab saw end is never sent and never
\* written into the account list, even when the permission was granted again since:
\* the lifetimes that Authorization keeps for late completions.
RevokedWorkStaysRevoked ==
  [][\A c \in acRevoked \cap acRevoked' :
       /\ acCmd[c].stage = "begun" => acCmd'[c].stage # "sent"
       /\ acCmd[c].stage = "caching" => acCmd'[c].stage # "cached"]_acvars

\* Once an administrator's own role change was applied, no session read that was answered
\* before the change brings the old role back: the cancellation in acceptSelfRole.
OwnChangeIsNotUndone == acRead.data.acc = "me" => acRead.data.ver >= acOwn
=============================================================================
