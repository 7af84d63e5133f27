------------------------ MODULE AccountSession_proofs ------------------------
(***************************************************************************)
(* Proofs about the signed-in account of a tab, for any number of commands *)
(* under way, any requests and any number of changes by others.            *)
(*                                                                         *)
(* Two facts about leases carry everything: a lease whose generation is    *)
(* still current names the confirmed account, which administers, and the   *)
(* lease of a command whose permission was seen to end is out of date for  *)
(* good.  For the own role, the versions of the server order what the      *)
(* session reads, the commands and the applied change may know.            *)
(***************************************************************************)
EXTENDS AccountSession, TLAPS

-----------------------------------------------------------------------------
(* The inductive invariant.                                                *)

\* Only somebody signed in administers.
Named(session) == session = NoOne \/ session.acc \in {"me", "peer"}
ReadsAreNamed == Named(acRead.data) /\ Named(acCall.data)
AnswersAreNamed ==
  acCall.stage = "clearing" \/ (acCall.stage = "served" /\ acCall.kind = "ok")
    => acCall.data.acc \in {"me", "peer"}
KnownIsNamed == acKnown.role # "user" => acKnown.acc # "nobody"

\* A lease of the current generation is the confirmed account's.
LeasesAreBound ==
  \A w \in Work : acLease[w].acc # "nobody" /\ acLease[w].gen
                    => acLease[w].acc = acKnown.acc /\ acKnown.role = "admin"
RevokedIsEnded == \A c \in acRevoked : ~acLease[c].gen

\* What the server answered and decided about the own role, in its order.
OwnRoleRequest(c) == acLease[c].acc = "me" /\ acCmd[c].req \in {"operator", "user"}
ApplyingIsOwn == \A c \in AcCommands : acCmd[c].stage = "applying" => OwnRoleRequest(c)
Decided(c) == /\ OwnRoleRequest(c) /\ acCmd[c].kind = "ok"
              /\ acCmd[c].stage \in {"served", "applying"}
DecidedByServer == \A c \in AcCommands : Decided(c) => acCmd[c].ver <= acServer.ver
AppliedByServer == acOwn <= acServer.ver
ReadKnowsOwn == acRead.data.acc = "me" => acRead.data.ver >= acOwn
AnswerKnowsOwn == acCall.data.acc = "me" => acCall.data.ver >= acOwn
AnswerKnowsApplying ==
  \A c \in AcCommands : acCmd[c].stage = "applying" /\ acCall.data.acc = "me"
                          => acCall.data.ver >= acCmd[c].ver
ApplyingWasSaved == \A c \in AcCommands : acCmd[c].stage = "applying" => acCmd[c].kind = "ok"
\* A command of the current revision was decided after the applied change.
DecidedAfterApplied ==
  \A c \in AcCommands : Decided(c) /\ acLease[c].rev => acCmd[c].ver >= acOwn

Permissions == ReadsAreNamed /\ AnswersAreNamed /\ KnownIsNamed /\ LeasesAreBound
               /\ RevokedIsEnded
Order == /\ ApplyingIsOwn /\ ApplyingWasSaved /\ DecidedByServer /\ AppliedByServer
         /\ ReadKnowsOwn /\ AnswerKnowsOwn /\ AnswerKnowsApplying /\ DecidedAfterApplied

IInv == AccountTypeOK /\ Permissions /\ Order

-----------------------------------------------------------------------------
(* Types.                                                                  *)

LEMMA Fields ==
  ASSUME AccountTypeOK
  PROVE  /\ acServer.cookie \in {"me", "peer", "none"} /\ acServer.role \in Roles
         /\ acServer.ver \in Nat
         /\ acRead.status \in Statuses /\ acRead.data \in Sessions
         /\ acRead.rejected \in BOOLEAN /\ acRead.fetching \in BOOLEAN
         /\ acCall.kind \in Answers /\ acCall.data \in Sessions
         /\ acCall.before \in Statuses /\ acCall.was \in BOOLEAN
         /\ acKnown.acc \in Accounts /\ acKnown.role \in Roles
         /\ \A w \in Work : acLease[w] \in Leases
         /\ \A c \in AcCommands : acCmd[c] \in Commands
         /\ acList.kind \in Answers /\ acList.rejected \in BOOLEAN
BY DEF AccountTypeOK, Servers, Reads, Calls, AccountLists

LEMMA SessionFields ==
  ASSUME NEW s \in Sessions
  PROVE  s.acc \in Accounts /\ s.role \in Roles /\ s.ver \in Nat
BY DEF Sessions

LEMMA LeaseFields ==
  ASSUME NEW l \in Leases
  PROVE  l.acc \in Accounts /\ l.gen \in BOOLEAN /\ l.rev \in BOOLEAN /\ l.recov \in BOOLEAN
BY DEF Leases

LEMMA CommandFields ==
  ASSUME NEW c \in Commands
  PROVE  /\ c.stage \in CommandStages /\ c.kind \in Answers /\ c.ver \in Nat
         /\ c.req \in {"other", "operator", "user", "disable"}
BY DEF Commands

LEMMA NoOneTyped == NoOne \in Sessions
BY DEF NoOne, Sessions, Accounts, Roles

LEMMA NoCallTyped == NoCall \in Calls /\ NoCall.stage = "none"
BY NoOneTyped DEF NoCall, Calls, Answers, Statuses

LEMMA AskingTyped ==
  ASSUME AccountTypeOK, Asking
  PROVE  acRead' \in Reads /\ acCall' \in Calls /\ acCall'.stage = "sent" /\ acRead'.fetching
<1>1. PICK was \in BOOLEAN, before \in Statuses :
        acCall' = [stage |-> "sent", kind |-> "ok", data |-> NoOne, before |-> before,
                   was |-> was]
  BY Fields DEF Asking, NoCall
<1>2. acCall' \in Calls /\ acCall'.stage = "sent"
  BY <1>1, NoOneTyped DEF Calls, Answers
<1>3. PICK rejected \in BOOLEAN, status \in Statuses :
        acRead' = [status |-> status, data |-> acRead.data, rejected |-> rejected,
                   fetching |-> TRUE]
  BY Fields DEF Asking, AccountTypeOK, Reads, Statuses
<1>4. acRead' \in Reads /\ acRead'.fetching
  BY <1>3, Fields DEF Reads
<1>. QED
  BY <1>2, <1>4

LEMMA RevertedTyped ==
  ASSUME AccountTypeOK
  PROVE  Reverted \in Reads /\ ~Reverted.fetching
BY Fields DEF Reverted, AccountTypeOK, Reads

LEMMA FlagsTyped ==
  ASSUME NEW l \in Leases
  PROVE  /\ [l EXCEPT !.gen = FALSE] \in Leases /\ [l EXCEPT !.rev = FALSE] \in Leases
         /\ [l EXCEPT !.recov = FALSE] \in Leases
BY DEF Leases

LEMMA CaptureTyped ==
  ASSUME AccountTypeOK
  PROVE  CaptureLease \in Leases
BY Fields DEF CaptureLease, Leases

LEMMA EndedTyped ==
  ASSUME AccountTypeOK, NEW next, NEW w \in Work
  PROVE  Ended(next, acLease[w]) \in Leases
BY Fields, FlagsTyped DEF Ended

LEMMA RecheckTyped ==
  ASSUME AccountTypeOK, Recheck
  PROVE  /\ acRead' \in Reads /\ acCall' \in Calls /\ (acCall'.stage # "none" <=> acRead'.fetching)
         /\ acHandled' \in BOOLEAN /\ acRecover' \in {"no", "cancelled", "reading"}
         /\ acLease' \in [Work -> Leases]
<1>1. CASE Recovering
  BY <1>1 DEF Recheck, AccountTypeOK
<1>2. CASE ~Recovering
  <2>1. acLease' \in [Work -> Leases]
    BY <1>2, Fields, FlagsTyped DEF Recheck
  <2>. QED
    BY <1>2, <2>1, RevertedTyped, NoCallTyped DEF Recheck
<1>. QED
  BY <1>1, <1>2

LEMMA ReportErrorTyped ==
  ASSUME AccountTypeOK, NEW kind, NEW lease, ReportError(kind, lease)
  PROVE  /\ acRead' \in Reads /\ acCall' \in Calls /\ (acCall'.stage # "none" <=> acRead'.fetching)
         /\ acHandled' \in BOOLEAN /\ acRecover' \in {"no", "cancelled", "reading"}
         /\ acLease' \in [Work -> Leases]
<1>1. Recheck \/ UNCHANGED <<acRecover, acHandled, acLease, acRead, acCall>>
  BY Zenon DEF ReportError
<1>. QED
  BY <1>1, RecheckTyped DEF AccountTypeOK

LEMMA SessionOfTyped ==
  ASSUME NEW read \in Reads
  PROVE  SessionOf(read) \in [acc : Accounts, role : Roles]
BY DEF SessionOf, Reads, Sessions, Accounts, Roles

LEMMA IdleListTyped ==
  /\ [stage |-> "idle", kind |-> "ok", rejected |-> FALSE] \in AccountLists
  /\ [stage |-> "sent", kind |-> "ok", rejected |-> FALSE] \in AccountLists
BY DEF AccountLists, Answers

LEMMA UpdateTyped ==
  ASSUME AccountTypeOK, NEW next \in [acc : Accounts, role : Roles], UpdateConfirmed(next)
  PROVE  /\ acKnown' \in [acc : Accounts, role : Roles] /\ acRevoked' \subseteq AcCommands
         /\ acList' \in AccountLists
<1>1. acKnown' = next
  BY Zenon DEF UpdateConfirmed
<1>2. acRevoked' \subseteq AcCommands
  BY DEF UpdateConfirmed, AccountTypeOK
<1>3. \/ acList' = [stage |-> "idle", kind |-> "ok", rejected |-> FALSE]
      \/ UNCHANGED acList
  BY Zenon DEF UpdateConfirmed
<1>4. acList' \in AccountLists
  BY <1>3, IdleListTyped DEF AccountTypeOK
<1>. QED
  BY <1>1, <1>2, <1>4

LEMMA AcceptTyped ==
  ASSUME AccountTypeOK, NEW read \in Reads, AcceptSession(read)
  PROVE  /\ acRead' = read /\ acKnown' \in [acc : Accounts, role : Roles]
         /\ acRevoked' \subseteq AcCommands /\ acList' \in AccountLists
         /\ acLease' \in [Work -> Leases] /\ acHandled' \in BOOLEAN
<1>1. UpdateConfirmed(SessionOf(read)) /\ acRead' = read
  BY Zenon DEF AcceptSession
<1>2. acLease' \in [Work -> Leases]
  BY EndedTyped, FlagsTyped DEF AcceptSession
<1>3. acHandled' \in BOOLEAN
  BY DEF AcceptSession
<1>. QED
  BY <1>1, <1>2, <1>3, SessionOfTyped, UpdateTyped

-----------------------------------------------------------------------------
(* Every step keeps the types.                                             *)

LEMMA ReadSessionTyped ==
  ASSUME AccountTypeOK, ReadSession
  PROVE  AccountTypeOK'
BY AskingTyped DEF AccountTypeOK, ReadSession

LEMMA RetryPausedTyped ==
  ASSUME AccountTypeOK, RetryPaused
  PROVE  AccountTypeOK'
BY RecheckTyped DEF AccountTypeOK, RetryPaused

LEMMA RefreshAuthenticationTyped ==
  ASSUME AccountTypeOK, RefreshAuthentication
  PROVE  AccountTypeOK'
<1>1. /\ acRead' \in Reads /\ acCall' \in Calls
      /\ acCall'.stage # "none" <=> acRead'.fetching
  <2>1. CASE acRead.fetching
    BY <2>1 DEF AccountTypeOK, RefreshAuthentication
  <2>2. CASE ~acRead.fetching
    BY <2>2, AskingTyped DEF RefreshAuthentication
  <2>. QED
    BY <2>1, <2>2
<1>. QED
  BY <1>1 DEF AccountTypeOK, RefreshAuthentication

LEMMA ServeSessionTyped ==
  ASSUME AccountTypeOK, ServeSession
  PROVE  AccountTypeOK'
<1>1. PICK kind \in Answers, data \in Sessions :
        acCall' = [acCall EXCEPT !.stage = "served", !.kind = kind, !.data = data]
  <2>1. PICK lost \in {"ok", "lost"} :
          acCall' = [acCall EXCEPT !.stage = "served",
            !.kind = IF lost = "lost" THEN "lost"
                     ELSE IF acServer.cookie = "none" THEN "refused" ELSE "ok",
            !.data = IF lost = "ok" /\ acServer.cookie # "none"
                     THEN [acc |-> acServer.cookie, ver |-> acServer.ver,
                           role |-> IF acServer.cookie = "me" THEN acServer.role ELSE "admin"]
                     ELSE NoOne]
    BY Zenon DEF ServeSession
  <2>2. (IF lost = "lost" THEN "lost" ELSE IF acServer.cookie = "none" THEN "refused" ELSE "ok")
          \in Answers
    BY DEF Answers
  <2>3. (IF lost = "ok" /\ acServer.cookie # "none"
         THEN [acc |-> acServer.cookie, ver |-> acServer.ver,
               role |-> IF acServer.cookie = "me" THEN acServer.role ELSE "admin"]
         ELSE NoOne) \in Sessions
    BY Fields, NoOneTyped DEF Sessions, Accounts, Roles
  <2>. QED
    BY <2>1, <2>2, <2>3
<1>2. acCall' \in Calls /\ acCall'.stage = "served" /\ acCall.stage = "sent"
  BY <1>1 DEF AccountTypeOK, Calls, ServeSession
<1>. QED
  BY <1>2 DEF AccountTypeOK, ServeSession

LEMMA PrincipalChangesTyped ==
  ASSUME AccountTypeOK, PrincipalChanges
  PROVE  AccountTypeOK'
<1>1. acCall' \in Calls /\ acCall'.stage = "clearing" /\ acCall.stage = "served"
  BY DEF AccountTypeOK, Calls, PrincipalChanges
<1>2. acList' \in AccountLists
  BY DEF PrincipalChanges, AccountLists, Answers
<1>. QED
  BY <1>1, <1>2 DEF AccountTypeOK, PrincipalChanges

LEMMA SessionAcceptedTyped ==
  ASSUME AccountTypeOK, SessionAccepted
  PROVE  AccountTypeOK'
<1> DEFINE read == [status |-> "success", data |-> acCall.data, rejected |-> FALSE,
                    fetching |-> FALSE]
<1>1. read \in Reads /\ ~read.fetching
  BY Fields DEF Reads, Statuses
<1>2. AcceptSession(read)
  BY Zenon DEF SessionAccepted
<1> HIDE DEF read
<1>3. acCall' = NoCall
  BY DEF SessionAccepted
<1>. QED
  BY <1>1, <1>2, <1>3, AcceptTyped, NoCallTyped DEF AccountTypeOK, SessionAccepted

LEMMA SessionFailedTyped ==
  ASSUME AccountTypeOK, SessionFailed
  PROVE  AccountTypeOK'
<1>1. PICK rejected \in BOOLEAN :
        acRead' = [acRead EXCEPT !.status = "error", !.fetching = FALSE, !.rejected = rejected]
  BY DEF SessionFailed
<1>2. acRead' \in Reads /\ ~acRead'.fetching
  BY <1>1 DEF AccountTypeOK, Reads, Statuses
<1>3. acCall' \in Calls /\ acCall'.stage = "none"
  BY NoCallTyped DEF SessionFailed
<1>4. /\ acKnown' \in [acc : Accounts, role : Roles] /\ acRevoked' \subseteq AcCommands
      /\ acList' \in AccountLists /\ acLease' \in [Work -> Leases]
  <2>1. CASE UNCHANGED <<acKnown, acRevoked, acList, acLease>>
    BY <2>1 DEF AccountTypeOK
  <2>2. CASE /\ UpdateConfirmed(SessionOf(acRead'))
             /\ acLease' = [w \in Work |-> Ended(SessionOf(acRead'), acLease[w])]
    <3>1. acLease' \in [Work -> Leases]
      BY <2>2, EndedTyped
    <3>. QED
      BY <1>2, <2>2, <3>1, SessionOfTyped, UpdateTyped
  <2>. QED
    BY <2>1, <2>2, Zenon DEF SessionFailed
<1>. QED
  BY <1>2, <1>3, <1>4 DEF AccountTypeOK, SessionFailed

LEMMA FetchListTyped ==
  ASSUME AccountTypeOK, NEW refresh \in BOOLEAN, FetchList(refresh)
  PROVE  AccountTypeOK'
<1>1. acList' \in AccountLists
  BY Fields DEF FetchList, AccountLists, Answers
<1>2. acLease' \in [Work -> Leases]
  BY CaptureTyped DEF FetchList, AccountTypeOK
<1>3. acHandled' \in BOOLEAN
  BY DEF FetchList
<1>. QED
  BY <1>1, <1>2, <1>3 DEF AccountTypeOK, FetchList

LEMMA ServeListTyped ==
  ASSUME AccountTypeOK, ServeList
  PROVE  AccountTypeOK'
<1>1. PICK kind \in Answers : acList' = [acList EXCEPT !.stage = "served", !.kind = kind]
  BY DEF ServeList, Answers
<1>2. acList' \in AccountLists
  BY <1>1 DEF AccountTypeOK, AccountLists
<1>. QED
  BY <1>2 DEF AccountTypeOK, ServeList

LEMMA ListArrivesTyped ==
  ASSUME AccountTypeOK, ListArrives
  PROVE  AccountTypeOK'
<1>1. PICK rejected \in BOOLEAN :
        acList' = [acList EXCEPT !.stage = "idle", !.rejected = rejected]
  BY DEF ListArrives
<1>2. acList' \in AccountLists
  BY <1>1 DEF AccountTypeOK, AccountLists
<1>3. ReportError(acList.kind, acLease["list"])
  BY Zenon DEF ListArrives
<1>. QED
  BY <1>2, <1>3, ReportErrorTyped DEF AccountTypeOK, ListArrives

LEMMA ServerTyped ==
  ASSUME NEW s \in Servers, NEW cookie \in {"me", "peer", "none"}, NEW role \in Roles,
         NEW ver \in Nat
  PROVE  /\ [s EXCEPT !.role = role, !.ver = @ + 1] \in Servers
         /\ [s EXCEPT !.cookie = cookie, !.ver = @ + 1] \in Servers
<1>1. s.ver + 1 \in Nat
  BY DEF Servers
<1>2. /\ [s EXCEPT !.role = role, !.ver = s.ver + 1] \in Servers
      /\ [s EXCEPT !.cookie = cookie, !.ver = s.ver + 1] \in Servers
  BY <1>1 DEF Servers
<1>. QED
  BY <1>2

LEMMA OthersChangeTyped ==
  ASSUME AccountTypeOK, OthersChange
  PROVE  AccountTypeOK'
<1>1. acServer' \in Servers
  <2>1. \/ \E role \in Roles : acServer' = [acServer EXCEPT !.role = role, !.ver = @ + 1]
        \/ \E cookie \in {"me", "peer", "none"} :
             acServer' = [acServer EXCEPT !.cookie = cookie, !.ver = @ + 1]
    BY Zenon DEF OthersChange
  <2>2. ASSUME NEW role \in Roles, acServer' = [acServer EXCEPT !.role = role, !.ver = @ + 1]
        PROVE  acServer' \in Servers
    BY <2>2, ServerTyped DEF AccountTypeOK
  <2>3. ASSUME NEW cookie \in {"me", "peer", "none"},
               acServer' = [acServer EXCEPT !.cookie = cookie, !.ver = @ + 1]
        PROVE  acServer' \in Servers
    BY <2>3, ServerTyped DEF AccountTypeOK
  <2>. QED
    BY <2>1, <2>2, <2>3
<1>2. acMoves' \in 0..AcMoves
  <2>1. acMoves < AcMoves /\ acMoves' = acMoves + 1
    BY Zenon DEF OthersChange
  <2>. QED
    BY <2>1, AccountAssumption DEF AccountTypeOK
<1>. QED
  BY <1>1, <1>2 DEF AccountTypeOK, OthersChange

LEMMA IdleTyped == Idle \in Commands
BY DEF Idle, Commands, CommandStages, Answers

LEMMA StageTyped ==
  ASSUME AccountTypeOK, NEW c \in AcCommands, NEW stage \in CommandStages
  PROVE  /\ [acCmd[c] EXCEPT !.stage = stage] \in Commands
         /\ [acCmd EXCEPT ![c].stage = stage] \in [AcCommands -> Commands]
BY DEF AccountTypeOK, Commands

LEMMA BeginCommandTyped ==
  ASSUME AccountTypeOK, NEW c \in AcCommands, NEW req \in AcRequests, BeginCommand(c, req)
  PROVE  AccountTypeOK'
<1>1. acLease' \in [Work -> Leases]
  BY CaptureTyped DEF BeginCommand, AccountTypeOK, Work
<1>2. acCmd' \in [AcCommands -> Commands]
  <2>1. [Idle EXCEPT !.stage = "begun", !.req = req] \in Commands
    BY AccountAssumption DEF Idle, Commands, CommandStages, Answers
  <2>. QED
    BY <2>1, Fields, IdleTyped, Zenon DEF BeginCommand
<1>. QED
  BY <1>1, <1>2 DEF AccountTypeOK, BeginCommand

LEMMA SendCommandTyped ==
  ASSUME AccountTypeOK, NEW c \in AcCommands, SendCommand(c)
  PROVE  AccountTypeOK'
<1>1. \/ acCmd' = [acCmd EXCEPT ![c].stage = "sent"]
      \/ acCmd' = [acCmd EXCEPT ![c] = Idle]
  BY DEF SendCommand
<1>2. "sent" \in CommandStages
  BY DEF CommandStages
<1>3. acCmd' \in [AcCommands -> Commands]
  BY <1>1, <1>2, IdleTyped, StageTyped DEF AccountTypeOK
<1>. QED
  BY <1>3 DEF AccountTypeOK, SendCommand

LEMMA CommandServed ==
  ASSUME NEW command \in Commands, NEW kind \in Answers, NEW ver \in Nat
  PROVE  [command EXCEPT !.stage = "served", !.kind = kind, !.ver = ver + 1] \in Commands
<1>1. ver + 1 \in Nat /\ "served" \in CommandStages
  BY DEF CommandStages
<1>. QED
  BY <1>1 DEF Commands

LEMMA ServeCommandTyped ==
  ASSUME AccountTypeOK, NEW c \in AcCommands, ServeCommand(c)
  PROVE  AccountTypeOK'
<1>1. PICK kind \in Answers :
        acCmd' = [acCmd EXCEPT ![c].stage = "served", ![c].kind = kind,
                               ![c].ver = acServer.ver + 1]
  BY DEF ServeCommand, Answers
<1>2. acCmd' \in [AcCommands -> Commands]
  <2> DEFINE decided == [acCmd[c] EXCEPT !.stage = "served", !.kind = kind,
                                         !.ver = acServer.ver + 1]
  <2>1. decided \in Commands
    BY Fields, CommandServed
  <2>2. acCmd' = [acCmd EXCEPT ![c] = decided]
    BY <1>1
  <2> HIDE DEF decided
  <2>. QED
    BY <2>1, <2>2 DEF AccountTypeOK
<1>3. acServer' \in Servers
  <2>1. acServer' = acServer \/ acServer' = AfterRequest(acCmd[c].req)
    BY DEF ServeCommand
  <2>2. PICK cookie \in {"me", "peer", "none"}, role \in Roles, ver \in Nat :
          AfterRequest(acCmd[c].req)
            = [acServer EXCEPT !.ver = ver, !.role = role, !.cookie = cookie]
    <3> DEFINE req == acCmd[c].req
    <3>1. (IF req \in {"operator", "user", "disable"} THEN acServer.ver + 1 ELSE acServer.ver)
            \in Nat
      BY Fields
    <3>2. (IF req \in {"operator", "user"} THEN req ELSE acServer.role) \in Roles
      BY Fields DEF Roles
    <3>3. (IF req = "disable" THEN "none" ELSE acServer.cookie) \in {"me", "peer", "none"}
      BY Fields
    <3>4. AfterRequest(req) =
            [acServer EXCEPT
               !.ver = IF req \in {"operator", "user", "disable"} THEN acServer.ver + 1
                       ELSE acServer.ver,
               !.role = IF req \in {"operator", "user"} THEN req ELSE acServer.role,
               !.cookie = IF req = "disable" THEN "none" ELSE acServer.cookie]
      BY DEF AfterRequest
    <3>. QED
      BY <3>1, <3>2, <3>3, <3>4
  <2>3. [acServer EXCEPT !.ver = ver, !.role = role, !.cookie = cookie] \in Servers
    BY DEF AccountTypeOK, Servers
  <2>. QED
    BY <2>1, <2>2, <2>3 DEF AccountTypeOK
<1>. QED
  BY <1>2, <1>3 DEF AccountTypeOK, ServeCommand

LEMMA CommandFailsTyped ==
  ASSUME AccountTypeOK, NEW c \in AcCommands, CommandFails(c)
  PROVE  AccountTypeOK'
<1>1. acCmd' \in [AcCommands -> Commands]
  BY IdleTyped DEF AccountTypeOK, CommandFails
<1>2. ReportError(acCmd[c].kind, acLease[c])
  BY Zenon DEF CommandFails
<1>. QED
  BY <1>1, <1>2, ReportErrorTyped DEF AccountTypeOK, CommandFails

LEMMA CommandRechecksTyped ==
  ASSUME AccountTypeOK, NEW c \in AcCommands, CommandRechecks(c)
  PROVE  AccountTypeOK'
<1>1. acCmd' \in [AcCommands -> Commands]
  <2>1. \/ acCmd' = [acCmd EXCEPT ![c].stage = "saved"]
        \/ acCmd' = [acCmd EXCEPT ![c].stage = "waiting"]
    BY DEF CommandRechecks
  <2>2. "saved" \in CommandStages /\ "waiting" \in CommandStages
    BY DEF CommandStages
  <2>3. CASE acCmd' = [acCmd EXCEPT ![c].stage = "saved"]
    BY <2>2, <2>3, StageTyped
  <2>4. CASE acCmd' = [acCmd EXCEPT ![c].stage = "waiting"]
    BY <2>2, <2>4, StageTyped
  <2>. QED
    BY <2>1, <2>3, <2>4
<1>2. Recheck
  BY Zenon DEF CommandRechecks
<1>. QED
  BY <1>1, <1>2, RecheckTyped DEF AccountTypeOK, CommandRechecks

LEMMA AcceptSelfRoleTyped ==
  ASSUME AccountTypeOK, NEW c \in AcCommands, AcceptSelfRole(c)
  PROVE  AccountTypeOK'
<1>1. acCmd' \in [AcCommands -> Commands]
  BY StageTyped DEF AcceptSelfRole, CommandStages
<1>2. /\ acRead' = Reverted /\ acCall' = NoCall
      /\ acRecover' = IF acRecover = "reading" THEN "no" ELSE acRecover
  BY Zenon DEF AcceptSelfRole, CancelAuthentication
<1>. QED
  BY <1>1, <1>2, RevertedTyped, NoCallTyped DEF AccountTypeOK, AcceptSelfRole

\* The session read once the own role is applied.
Replacing(c) == [acRead EXCEPT !.status = "success", !.rejected = FALSE,
                               !.data.role = acCmd[c].req, !.data.ver = acCmd[c].ver]

LEMMA ReadEdited ==
  ASSUME NEW r \in Reads, NEW session \in Sessions
  PROVE  /\ [r EXCEPT !.status = "success", !.rejected = FALSE, !.data = session] \in Reads
         /\ [r EXCEPT !.status = "success", !.rejected = FALSE, !.data = session].fetching
              = r.fetching
         /\ [r EXCEPT !.status = "success", !.rejected = FALSE, !.data = session].data = session
BY DEF Reads, Statuses

LEMMA ReplacingTyped ==
  ASSUME AccountTypeOK, NEW c \in AcCommands, acCmd[c].req \in Roles
  PROVE  /\ Replacing(c) \in Reads /\ Replacing(c).fetching = acRead.fetching
         /\ Replacing(c).data.acc = acRead.data.acc
         /\ Replacing(c).data.role = acCmd[c].req
         /\ Replacing(c).data.ver = acCmd[c].ver
<1> DEFINE session == [acRead.data EXCEPT !.role = acCmd[c].req, !.ver = acCmd[c].ver]
<1>1. Replacing(c) = [acRead EXCEPT !.status = "success", !.rejected = FALSE, !.data = session]
  BY DEF Replacing, AccountTypeOK, Reads
<1>2. PICK s \in Sessions, role \in Roles, ver \in Nat :
        s = acRead.data /\ role = acCmd[c].req /\ ver = acCmd[c].ver
  BY Fields, CommandFields
<1>3. /\ session \in Sessions /\ session.acc = acRead.data.acc
      /\ session.role = acCmd[c].req /\ session.ver = acCmd[c].ver
  <2> DEFINE edited == [s EXCEPT !.role = role, !.ver = ver]
  <2>1. session = edited
    BY <1>2
  <2>2. /\ edited \in Sessions /\ edited.acc = s.acc /\ edited.role = role
        /\ edited.ver = ver
    BY DEF Sessions
  <2> HIDE DEF session, edited
  <2>. QED
    BY <1>2, <2>1, <2>2
<1> HIDE DEF session
<1>4. acRead \in Reads
  BY DEF AccountTypeOK
<1>5. /\ Replacing(c) \in Reads /\ Replacing(c).fetching = acRead.fetching
      /\ Replacing(c).data = session
  BY <1>1, <1>3, <1>4, ReadEdited
<1>. QED
  BY <1>3, <1>5

LEMMA ReplaceSelfRoleTyped ==
  ASSUME AccountTypeOK, NEW c \in AcCommands, ReplaceSelfRole(c), acCmd[c].req \in Roles
  PROVE  AccountTypeOK'
<1>1. acCmd' \in [AcCommands -> Commands]
  BY StageTyped DEF ReplaceSelfRole, CommandStages
<1>2. CASE /\ AcceptSession(Replacing(c))
           /\ acCall' = [acCall EXCEPT !.before = "success", !.was = FALSE]
           /\ acOwn' = acCmd[c].ver
  <2>1. acCall' \in Calls /\ acCall'.stage = acCall.stage
    BY <1>2 DEF AccountTypeOK, Calls, Statuses
  <2>2. acOwn' \in Nat
    BY <1>2, Fields, CommandFields
  <2>. QED
    BY <1>1, <1>2, <2>1, <2>2, ReplacingTyped, AcceptTyped DEF AccountTypeOK, ReplaceSelfRole
<1>3. CASE UNCHANGED <<acRead, acKnown, acRevoked, acList, acLease, acHandled, acCall, acOwn>>
  BY <1>1, <1>3 DEF AccountTypeOK, ReplaceSelfRole
<1>. QED
  BY <1>2, <1>3, Zenon DEF ReplaceSelfRole, Replacing

LEMMA PlainStageTyped ==
  ASSUME AccountTypeOK, NEW c \in AcCommands,
         CommandSaved(c) \/ RecheckEnded(c) \/ ApplyReceipt(c) \/ CacheSavedAccount(c)
  PROVE  AccountTypeOK'
<1>1. \E stage \in CommandStages : acCmd' = [acCmd EXCEPT ![c].stage = stage]
  BY DEF CommandSaved, RecheckEnded, ApplyReceipt, CacheSavedAccount, CommandStages
<1>2. acCmd' \in [AcCommands -> Commands]
  BY <1>1, StageTyped
<1>3. acList' \in AccountLists
  BY DEF AccountTypeOK, AccountLists, CommandSaved, RecheckEnded, ApplyReceipt,
         CacheSavedAccount
<1>4. UNCHANGED <<acServer, acRead, acCall, acKnown, acHandled, acRecover, acApply, acLease,
                  acMoves, acRevoked, acOwn>>
  BY DEF CommandSaved, RecheckEnded, ApplyReceipt, CacheSavedAccount
<1>. QED
  BY <1>2, <1>3, <1>4 DEF AccountTypeOK

LEMMA InvalidateAccountsTyped ==
  ASSUME AccountTypeOK, NEW c \in AcCommands, InvalidateAccounts(c)
  PROVE  AccountTypeOK'
<1>1. acCmd' \in [AcCommands -> Commands]
  BY IdleTyped DEF AccountTypeOK, InvalidateAccounts
<1>2. acList' \in AccountLists /\ acLease' \in [Work -> Leases]
  <2>1. CASE CanReadProtected
    <3>1. acList' \in AccountLists
      BY <2>1, IdleListTyped, Zenon DEF InvalidateAccounts
    <3>2. acLease' \in [Work -> Leases]
      BY <2>1, CaptureTyped DEF InvalidateAccounts, AccountTypeOK
    <3>. QED
      BY <3>1, <3>2
  <2>2. CASE ~CanReadProtected
    BY <2>2 DEF InvalidateAccounts, AccountTypeOK
  <2>. QED
    BY <2>1, <2>2
<1>3. acRead' \in Reads /\ acCall' \in Calls /\ (acCall'.stage # "none" <=> acRead'.fetching)
  <2>1. CASE acRead.fetching
    <3>1. acCall' = [acCall EXCEPT !.stage = "sent", !.data = NoOne, !.kind = "ok"]
          /\ UNCHANGED acRead
      BY <2>1, Zenon DEF InvalidateAccounts
    <3>2. acCall' \in Calls /\ acCall'.stage = "sent"
      BY <3>1, NoOneTyped DEF AccountTypeOK, Calls, Answers
    <3>. QED
      BY <2>1, <3>1, <3>2 DEF AccountTypeOK
  <2>2. CASE ~acRead.fetching
    <3>1. Asking
      BY <2>2, Zenon DEF InvalidateAccounts
    <3>. QED
      BY <3>1, AskingTyped
  <2>. QED
    BY <2>1, <2>2
<1>. QED
  BY <1>1, <1>2, <1>3 DEF AccountTypeOK, InvalidateAccounts

-----------------------------------------------------------------------------
(* What most steps do to the session, the leases and the commands.         *)

\* The session shown stays, and no answer is on its way that was not before.
SessionKept == /\ acRead'.data = acRead.data
               /\ \/ UNCHANGED acCall
                  \/ acCall'.data = NoOne /\ acCall'.stage \in {"none", "sent"}
LeasesOnlyEnd == \A w \in Work : /\ acLease'[w].acc = acLease[w].acc
                                 /\ acLease'[w].gen => acLease[w].gen
                                 /\ acLease'[w].rev => acLease[w].rev
CommandsAdvance == \A c \in AcCommands : \/ acCmd'[c] = acCmd[c]
                                         \/ acCmd'[c].stage \notin {"served", "applying"}

LEMMA AskingKeeps ==
  ASSUME AccountTypeOK, Asking
  PROVE  SessionKept
<1>1. acRead'.data = acRead.data
  BY Fields DEF Asking, AccountTypeOK, Reads
<1>2. acCall'.data = NoOne /\ acCall'.stage = "sent"
  BY DEF Asking, NoCall
<1>. QED
  BY <1>1, <1>2 DEF SessionKept

LEMMA RevertedKeeps ==
  ASSUME AccountTypeOK, acRead' = Reverted, acCall' = NoCall
  PROVE  SessionKept
<1>1. acRead'.data = acRead.data
  BY Fields DEF Reverted, AccountTypeOK, Reads
<1>2. acCall'.data = NoOne /\ acCall'.stage = "none"
  BY DEF NoCall
<1>. QED
  BY <1>1, <1>2 DEF SessionKept

LEMMA RecheckKeeps ==
  ASSUME AccountTypeOK, Recheck
  PROVE  SessionKept /\ LeasesOnlyEnd
<1>1. CASE Recovering
  BY <1>1 DEF Recheck, SessionKept, LeasesOnlyEnd
<1>2. CASE ~Recovering
  <2>1. SessionKept
    BY <1>2, RevertedKeeps, Zenon DEF Recheck
  <2>2. ASSUME NEW w \in Work
        PROVE  /\ acLease'[w].acc = acLease[w].acc
               /\ acLease'[w].gen = acLease[w].gen /\ acLease'[w].rev = acLease[w].rev
    BY <1>2, Fields DEF Recheck, Leases
  <2>. QED
    BY <2>1, <2>2 DEF LeasesOnlyEnd
<1>. QED
  BY <1>1, <1>2

LEMMA ReportErrorKeeps ==
  ASSUME AccountTypeOK, NEW kind, NEW lease, ReportError(kind, lease)
  PROVE  SessionKept /\ LeasesOnlyEnd
<1>1. Recheck \/ UNCHANGED <<acRecover, acHandled, acLease, acRead, acCall>>
  BY Zenon DEF ReportError
<1>. QED
  BY <1>1, RecheckKeeps DEF SessionKept, LeasesOnlyEnd

LEMMA StagesAdvance ==
  ASSUME AccountTypeOK, NEW c \in AcCommands, NEW stage,
         stage \notin {"served", "applying"}, acCmd' = [acCmd EXCEPT ![c].stage = stage]
  PROVE  CommandsAdvance
BY Fields DEF CommandsAdvance, AccountTypeOK, Commands

LEMMA IdleAdvances ==
  ASSUME AccountTypeOK, NEW c \in AcCommands, acCmd' = [acCmd EXCEPT ![c] = Idle]
  PROVE  CommandsAdvance
BY DEF CommandsAdvance, AccountTypeOK, Idle

-----------------------------------------------------------------------------
(* The parts of the invariant under those steps.                           *)

LEMMA NamesKept ==
  ASSUME ReadsAreNamed, AnswersAreNamed, SessionKept
  PROVE  ReadsAreNamed' /\ AnswersAreNamed'
BY DEF ReadsAreNamed, AnswersAreNamed, SessionKept, Named

LEMMA BoundsKept ==
  ASSUME AccountTypeOK, KnownIsNamed, LeasesAreBound, RevokedIsEnded, LeasesOnlyEnd,
         UNCHANGED acKnown, acRevoked' \subseteq acRevoked
  PROVE  KnownIsNamed' /\ LeasesAreBound' /\ RevokedIsEnded'
<1>1. KnownIsNamed'
  BY DEF KnownIsNamed
<1>2. LeasesAreBound'
  BY DEF LeasesAreBound, LeasesOnlyEnd
<1>3. RevokedIsEnded'
  BY DEF RevokedIsEnded, LeasesOnlyEnd, AccountTypeOK, Work
<1>. QED
  BY <1>1, <1>2, <1>3

\* The order is kept when the decided commands stay as they are and only the server moves on.
LEMMA OrderKept ==
  ASSUME AccountTypeOK, Order, CommandsAdvance,
         \A c \in AcCommands : acCmd'[c].stage \in {"served", "applying"}
           => acLease'[c].acc = acLease[c].acc /\ (acLease'[c].rev => acLease[c].rev),
         acServer'.ver \in Nat, acServer'.ver >= acServer.ver, UNCHANGED acOwn,
         acRead'.data = acRead.data \/ acRead'.data = acCall.data,
         acCall'.data = acCall.data \/ acCall'.data = NoOne
  PROVE  Order'
<1>1. \A c \in AcCommands : OwnRoleRequest(c)' /\ acCmd'[c].stage \in {"served", "applying"}
                              => OwnRoleRequest(c) /\ acCmd'[c] = acCmd[c]
  BY DEF OwnRoleRequest, CommandsAdvance
<1>2. \A c \in AcCommands : Decided(c)' => Decided(c) /\ acCmd'[c] = acCmd[c]
  BY <1>1 DEF Decided
<1>3. \A c \in AcCommands : acCmd'[c].stage = "applying" => acCmd'[c] = acCmd[c]
  BY DEF CommandsAdvance
<1>4. NoOne.acc # "me"
  BY DEF NoOne
<1>5. /\ acServer.ver \in Nat /\ acOwn \in Nat
      /\ \A c \in AcCommands : acCmd[c].ver \in Nat
  BY Fields, CommandFields DEF AccountTypeOK
<1>6. ApplyingIsOwn' /\ ApplyingWasSaved'
  BY <1>3 DEF Order, ApplyingIsOwn, ApplyingWasSaved, OwnRoleRequest
<1>7. DecidedByServer' /\ AppliedByServer'
  BY <1>2, <1>5 DEF Order, DecidedByServer, AppliedByServer
<1>8. ReadKnowsOwn' /\ AnswerKnowsOwn'
  BY <1>4 DEF Order, ReadKnowsOwn, AnswerKnowsOwn
<1>9. AnswerKnowsApplying'
  BY <1>3, <1>4 DEF Order, AnswerKnowsApplying
<1>10. DecidedAfterApplied'
  BY <1>2 DEF Order, DecidedAfterApplied, Decided
<1>. QED
  BY <1>6, <1>7, <1>8, <1>9, <1>10 DEF Order

LEMMA Kept ==
  ASSUME AccountTypeOK, Permissions, Order, SessionKept, LeasesOnlyEnd, CommandsAdvance,
         UNCHANGED <<acKnown, acRevoked, acOwn>>,
         acServer'.ver \in Nat, acServer'.ver >= acServer.ver
  PROVE  Permissions' /\ Order'
<1>1. Permissions'
  BY NamesKept, BoundsKept DEF Permissions
<1>2. Order'
  BY OrderKept DEF SessionKept, LeasesOnlyEnd, Work
<1>. QED
  BY <1>1, <1>2

-----------------------------------------------------------------------------
(* Steps that leave permissions and decided commands as they are.          *)

LEMMA UnchangedKeeps ==
  /\ UNCHANGED <<acRead, acCall>> => SessionKept
  /\ UNCHANGED acLease => LeasesOnlyEnd
  /\ UNCHANGED acCmd => CommandsAdvance
BY DEF SessionKept, LeasesOnlyEnd, CommandsAdvance

LEMMA ServerStays ==
  ASSUME AccountTypeOK, UNCHANGED acServer
  PROVE  acServer'.ver \in Nat /\ acServer'.ver >= acServer.ver
BY Fields

LEMMA SessionStepsKeep ==
  ASSUME AccountTypeOK, Permissions, Order, ReadSession \/ RetryPaused \/ RefreshAuthentication
  PROVE  Permissions' /\ Order'
<1>1. SessionKept /\ LeasesOnlyEnd
  <2>1. CASE ReadSession
    BY <2>1, AskingKeeps, UnchangedKeeps DEF ReadSession
  <2>2. CASE RetryPaused
    BY <2>2, RecheckKeeps DEF RetryPaused
  <2>3. CASE RefreshAuthentication
    BY <2>3, AskingKeeps, UnchangedKeeps DEF RefreshAuthentication
  <2>. QED
    BY <2>1, <2>2, <2>3
<1>2. UNCHANGED <<acKnown, acRevoked, acOwn, acCmd, acServer>>
  BY DEF ReadSession, RetryPaused, RefreshAuthentication
<1>. QED
  BY <1>1, <1>2, Kept, ServerStays, UnchangedKeeps

LEMMA ListStepsKeep ==
  ASSUME AccountTypeOK, Permissions, Order, ServeList \/ ListArrives
  PROVE  Permissions' /\ Order'
<1>1. SessionKept /\ LeasesOnlyEnd
  <2>1. CASE ServeList
    BY <2>1, UnchangedKeeps DEF ServeList
  <2>2. CASE ListArrives
    BY <2>2, ReportErrorKeeps, Zenon DEF ListArrives
  <2>. QED
    BY <2>1, <2>2
<1>2. UNCHANGED <<acKnown, acRevoked, acOwn, acCmd, acServer>>
  BY DEF ServeList, ListArrives
<1>. QED
  BY <1>1, <1>2, Kept, ServerStays, UnchangedKeeps

LEMMA CommandStepsKeep ==
  ASSUME AccountTypeOK, Permissions, Order, NEW c \in AcCommands,
         \/ SendCommand(c) \/ CommandFails(c) \/ CommandSaved(c) \/ CommandRechecks(c)
         \/ RecheckEnded(c) \/ ApplyReceipt(c) \/ CacheSavedAccount(c)
  PROVE  Permissions' /\ Order'
<1>1. CommandsAdvance
  <2>1. \/ acCmd' = [acCmd EXCEPT ![c] = Idle]
        \/ \E stage \in {"sent", "saved", "waiting", "caching", "cached"} :
             acCmd' = [acCmd EXCEPT ![c].stage = stage]
    BY DEF SendCommand, CommandFails, CommandSaved, CommandRechecks, RecheckEnded,
           ApplyReceipt, CacheSavedAccount
  <2>. QED
    BY <2>1, IdleAdvances, StagesAdvance
<1>2. SessionKept /\ LeasesOnlyEnd
  <2>1. \/ UNCHANGED <<acRead, acCall, acLease>> \/ Recheck
        \/ ReportError(acCmd[c].kind, acLease[c])
    BY Zenon DEF SendCommand, CommandFails, CommandSaved, CommandRechecks, RecheckEnded,
           ApplyReceipt, CacheSavedAccount
  <2>. QED
    BY <2>1, ReportErrorKeeps, RecheckKeeps, UnchangedKeeps
<1>3. UNCHANGED <<acKnown, acRevoked, acOwn, acServer>>
  BY DEF SendCommand, CommandFails, CommandSaved, CommandRechecks, RecheckEnded,
         ApplyReceipt, CacheSavedAccount
<1>. QED
  BY <1>1, <1>2, <1>3, Kept, ServerStays

LEMMA OthersChangeKeeps ==
  ASSUME AccountTypeOK, Permissions, Order, OthersChange
  PROVE  Permissions' /\ Order'
<1>1. acServer'.ver = acServer.ver + 1
  BY DEF OthersChange, AccountTypeOK, Servers
<1>2. acServer'.ver \in Nat /\ acServer'.ver >= acServer.ver
  BY <1>1, Fields
<1>3. UNCHANGED <<acKnown, acRevoked, acOwn, acCmd, acRead, acCall, acLease>>
  BY DEF OthersChange
<1>. QED
  BY <1>2, <1>3, Kept, UnchangedKeeps

LEMMA PrincipalChangesKeep ==
  ASSUME AccountTypeOK, Permissions, Order, PrincipalChanges
  PROVE  Permissions' /\ Order'
<1>1. /\ acCall'.stage = "clearing" /\ acCall'.data = acCall.data
      /\ acCall.stage = "served" /\ acCall.kind = "ok"
  BY DEF AccountTypeOK, Calls, PrincipalChanges
<1>2. UNCHANGED <<acServer, acRead, acKnown, acLease, acCmd, acRevoked, acOwn>>
  BY DEF PrincipalChanges
<1>3. ReadsAreNamed' /\ AnswersAreNamed'
  BY <1>1, <1>2 DEF Permissions, ReadsAreNamed, AnswersAreNamed, Named
<1>4. Permissions'
  BY <1>2, <1>3, BoundsKept, UnchangedKeeps DEF Permissions
<1>5. Order'
  BY <1>1, <1>2, OrderKept, ServerStays, UnchangedKeeps
<1>. QED
  BY <1>4, <1>5

-----------------------------------------------------------------------------
(* New work is bound to the confirmed administrator.                       *)

LEMMA CaptureIsBound ==
  ASSUME AccountTypeOK, KnownIsNamed, LeasesAreBound, CanAdmin, NEW w \in Work,
         acLease' = [acLease EXCEPT ![w] = CaptureLease], UNCHANGED acKnown
  PROVE  /\ KnownIsNamed' /\ LeasesAreBound'
         /\ \A v \in Work \ {w} : acLease'[v] = acLease[v]
<1>1. KnownIsNamed'
  BY DEF KnownIsNamed
<1>2. acKnown.role = "admin"
  BY DEF CanAdmin, HasAdminRole
<1>3. acLease'[w].acc = acKnown.acc
  BY DEF CaptureLease, AccountTypeOK
<1>4. \A v \in Work \ {w} : acLease'[v] = acLease[v]
  BY DEF AccountTypeOK
<1>. QED
  BY <1>1, <1>2, <1>3, <1>4 DEF LeasesAreBound

LEMMA ListIsNoCommand == "list" \in Work /\ "list" \notin AcCommands /\ AcCommands \subseteq Work
BY AccountAssumption DEF Work

\* The list's lease is none of a command's.
LEMMA ListLeaseKeeps ==
  ASSUME AccountTypeOK, Permissions, Order, CanAdmin, SessionKept, CommandsAdvance,
         acLease' = [acLease EXCEPT !["list"] = CaptureLease],
         UNCHANGED <<acServer, acKnown, acRevoked, acOwn>>
  PROVE  Permissions' /\ Order'
<1>1. /\ KnownIsNamed' /\ LeasesAreBound'
      /\ \A v \in Work \ {"list"} : acLease'[v] = acLease[v]
  BY CaptureIsBound, ListIsNoCommand DEF Permissions
<1>2. \A c \in AcCommands : acLease'[c] = acLease[c]
  BY <1>1, ListIsNoCommand
<1>3. RevokedIsEnded'
  BY <1>2 DEF Permissions, RevokedIsEnded, AccountTypeOK
<1>4. Permissions'
  BY <1>1, <1>3, NamesKept DEF Permissions
<1>5. Order'
  BY <1>2, OrderKept, ServerStays DEF SessionKept
<1>. QED
  BY <1>4, <1>5

LEMMA FetchListKeeps ==
  ASSUME AccountTypeOK, Permissions, Order, ReadList \/ RefreshList
  PROVE  Permissions' /\ Order'
<1>1. CanAdmin /\ acLease' = [acLease EXCEPT !["list"] = CaptureLease]
  BY Zenon DEF ReadList, RefreshList, FetchList, Begins, CanReadProtected
<1>2. UNCHANGED <<acServer, acRead, acCall, acKnown, acCmd, acRevoked, acOwn>>
  BY DEF ReadList, RefreshList, FetchList
<1>. QED
  BY <1>1, <1>2, ListLeaseKeeps, UnchangedKeeps

LEMMA InvalidateAccountsKeeps ==
  ASSUME AccountTypeOK, Permissions, Order, NEW c \in AcCommands, InvalidateAccounts(c)
  PROVE  Permissions' /\ Order'
<1>1. SessionKept
  <2>1. CASE acRead.fetching
    <3>1. acCall' = [acCall EXCEPT !.stage = "sent", !.data = NoOne, !.kind = "ok"]
          /\ UNCHANGED acRead
      BY <2>1, Zenon DEF InvalidateAccounts
    <3>2. acCall'.stage = "sent" /\ acCall'.data = NoOne
      BY <3>1, NoOneTyped DEF AccountTypeOK, Calls
    <3>. QED
      BY <3>1, <3>2 DEF SessionKept
  <2>2. CASE ~acRead.fetching
    <3>1. Asking
      BY <2>2, Zenon DEF InvalidateAccounts
    <3>. QED
      BY <3>1, AskingKeeps
  <2>. QED
    BY <2>1, <2>2
<1>2. CommandsAdvance
  BY IdleAdvances DEF InvalidateAccounts
<1>3. UNCHANGED <<acServer, acKnown, acRevoked, acOwn>>
  BY DEF InvalidateAccounts
<1>4. \/ CanAdmin /\ acLease' = [acLease EXCEPT !["list"] = CaptureLease]
      \/ UNCHANGED acLease
  BY Zenon DEF InvalidateAccounts, CanReadProtected
<1>. QED
  BY <1>1, <1>2, <1>3, <1>4, ListLeaseKeeps, Kept, ServerStays, UnchangedKeeps

LEMMA BeginCommandKeeps ==
  ASSUME AccountTypeOK, Permissions, Order, NEW c \in AcCommands, NEW req \in AcRequests,
         BeginCommand(c, req)
  PROVE  Permissions' /\ Order'
<1>1. CanAdmin /\ acLease' = [acLease EXCEPT ![c] = CaptureLease]
  BY Zenon DEF BeginCommand, Begins
<1>2. UNCHANGED <<acServer, acRead, acCall, acKnown, acOwn>> /\ acRevoked' = acRevoked \ {c}
  BY DEF BeginCommand
<1>3. /\ KnownIsNamed' /\ LeasesAreBound'
      /\ \A v \in Work \ {c} : acLease'[v] = acLease[v]
  BY <1>1, <1>2, CaptureIsBound, ListIsNoCommand DEF Permissions
<1>4. RevokedIsEnded'
  BY <1>2, <1>3, ListIsNoCommand DEF Permissions, RevokedIsEnded, AccountTypeOK
<1>5. Permissions'
  BY <1>2, <1>3, <1>4, NamesKept, UnchangedKeeps DEF Permissions
<1>6. /\ \A d \in AcCommands \ {c} : acCmd'[d] = acCmd[d] \/ acCmd'[d] = Idle
      /\ acCmd'[c] = [Idle EXCEPT !.stage = "begun", !.req = req]
  BY Zenon DEF BeginCommand
<1>7. acCmd'[c].stage = "begun" /\ Idle.stage = "idle"
  BY <1>6 DEF Idle
<1>8. CommandsAdvance
  BY <1>6, <1>7 DEF CommandsAdvance
<1>9. \A d \in AcCommands : acCmd'[d].stage \in {"served", "applying"}
        => acLease'[d].acc = acLease[d].acc /\ (acLease'[d].rev => acLease[d].rev)
  BY <1>3, <1>7, ListIsNoCommand
<1>10. Order'
  BY <1>2, <1>8, <1>9, OrderKept, ServerStays
<1>. QED
  BY <1>5, <1>10

-----------------------------------------------------------------------------
(* The confirmed session changes: the leases it no longer covers end.      *)

LEMMA EndedLeases ==
  ASSUME AccountTypeOK, NEW next, NEW w \in Work
  PROVE  /\ Ended(next, acLease[w]).acc = acLease[w].acc
         /\ Ended(next, acLease[w]).gen => acLease[w].gen /\ ~LostBy(next)
         /\ Ended(next, acLease[w]).rev = acLease[w].rev
BY Fields DEF Ended, Leases

LEMMA UpdateKeeps ==
  ASSUME AccountTypeOK, LeasesAreBound, RevokedIsEnded,
         NEW next \in [acc : Accounts, role : Roles], UpdateConfirmed(next),
         next.role # "user" => next.acc # "nobody",
         \A w \in Work : /\ acLease'[w].acc = acLease[w].acc
                         /\ acLease'[w].gen => acLease[w].gen /\ ~LostBy(next)
  PROVE  KnownIsNamed' /\ LeasesAreBound' /\ RevokedIsEnded'
<1>1. acKnown' = next
  BY Zenon DEF UpdateConfirmed
<1>2. acRevoked' = acRevoked \cup
        {c \in AcCommands : acLease[c].acc # "nobody"
                            /\ (next.acc # acLease[c].acc \/ ~HasAdminRole(next.role))}
  BY Zenon DEF UpdateConfirmed
<1>3. KnownIsNamed'
  BY <1>1 DEF KnownIsNamed
<1>4. LeasesAreBound'
  BY <1>1 DEF LeasesAreBound, LostBy, HasAdminRole
<1>5. RevokedIsEnded'
  <2>1. ASSUME NEW c \in acRevoked', acLease'[c].gen
        PROVE  FALSE
    <3>1. c \in Work
      BY <1>2, ListIsNoCommand DEF AccountTypeOK
    <3>2. acLease[c].gen /\ ~LostBy(next)
      BY <2>1, <3>1
    <3>3. c \notin acRevoked
      BY <3>2 DEF RevokedIsEnded
    <3>4. acLease[c].acc # "nobody" /\ (next.acc # acLease[c].acc \/ ~HasAdminRole(next.role))
      BY <1>2, <3>3
    <3>5. acLease[c].acc = acKnown.acc /\ acKnown.role = "admin"
      BY <3>1, <3>2, <3>4 DEF LeasesAreBound
    <3>. QED
      BY <3>2, <3>4, <3>5 DEF LostBy, HasAdminRole
  <2>. QED
    BY <2>1 DEF RevokedIsEnded
<1>. QED
  BY <1>3, <1>4, <1>5

\* The leases of an accepted session are of an older revision.
LEMMA AcceptKeeps ==
  ASSUME AccountTypeOK, LeasesAreBound, RevokedIsEnded, NEW read \in Reads, AcceptSession(read),
         read.data.acc # "nobody" \/ read.data = NoOne
  PROVE  /\ KnownIsNamed' /\ LeasesAreBound' /\ RevokedIsEnded'
         /\ \A w \in Work : acLease'[w].acc = acLease[w].acc /\ ~acLease'[w].rev
<1>1. UpdateConfirmed(SessionOf(read))
  BY Zenon DEF AcceptSession
<1>2. ASSUME NEW w \in Work
      PROVE  /\ acLease'[w].acc = acLease[w].acc
             /\ acLease'[w].gen => acLease[w].gen /\ ~LostBy(SessionOf(read))
             /\ ~acLease'[w].rev
  <2> DEFINE ended == Ended(SessionOf(read), acLease[w])
  <2>1. ended \in Leases
    BY EndedTyped
  <2>2. /\ ended.acc = acLease[w].acc
        /\ ended.gen => acLease[w].gen /\ ~LostBy(SessionOf(read))
    BY EndedLeases
  <2>3. acLease'[w] = [ended EXCEPT !.rev = FALSE]
    BY DEF AcceptSession
  <2> HIDE DEF ended
  <2>4. acLease'[w].acc = ended.acc /\ acLease'[w].gen = ended.gen /\ ~acLease'[w].rev
    BY <2>1, <2>3 DEF Leases
  <2>. QED
    BY <2>2, <2>4
<1>3. SessionOf(read).role # "user" => SessionOf(read).acc # "nobody"
  BY DEF SessionOf
<1>4. SessionOf(read) \in [acc : Accounts, role : Roles]
  BY SessionOfTyped
<1>5. KnownIsNamed' /\ LeasesAreBound' /\ RevokedIsEnded'
  BY <1>1, <1>2, <1>3, <1>4, UpdateKeeps
<1>. QED
  BY <1>2, <1>5

LEMMA NoCallKeeps == NoCall.data = NoOne /\ NoCall.stage = "none" /\ Named(NoOne)
BY DEF NoCall, Named

LEMMA SessionAcceptedKeeps ==
  ASSUME AccountTypeOK, Permissions, Order, SessionAccepted
  PROVE  Permissions' /\ Order'
<1> DEFINE read == [status |-> "success", data |-> acCall.data, rejected |-> FALSE,
                    fetching |-> FALSE]
<1>1. read \in Reads /\ read.data = acCall.data
  BY Fields DEF Reads, Statuses
<1>2. AcceptSession(read)
  BY Zenon DEF SessionAccepted
<1>3. acRead' = read
  BY <1>2, Zenon DEF AcceptSession
<1> HIDE DEF read
<1>4. /\ acCall' = NoCall /\ UNCHANGED <<acServer, acCmd, acOwn>>
  BY DEF SessionAccepted
<1>5. acCall.data.acc \in {"me", "peer"}
  BY DEF SessionAccepted, Permissions, AnswersAreNamed
<1>6. /\ KnownIsNamed' /\ LeasesAreBound' /\ RevokedIsEnded'
      /\ \A w \in Work : acLease'[w].acc = acLease[w].acc /\ ~acLease'[w].rev
  BY <1>1, <1>2, <1>5, AcceptKeeps DEF Permissions
<1>7. ReadsAreNamed' /\ AnswersAreNamed'
  BY <1>1, <1>3, <1>4, <1>5, NoCallKeeps DEF ReadsAreNamed, AnswersAreNamed, Named
<1>8. Permissions'
  BY <1>6, <1>7 DEF Permissions
<1>9. \A c \in AcCommands : acLease'[c].acc = acLease[c].acc /\ ~acLease'[c].rev
  BY <1>6, ListIsNoCommand
<1>10. Order'
  BY <1>1, <1>3, <1>4, <1>9, NoCallKeeps, OrderKept, ServerStays, UnchangedKeeps
<1>. QED
  BY <1>8, <1>10

LEMMA SessionFailedKeeps ==
  ASSUME AccountTypeOK, Permissions, Order, SessionFailed
  PROVE  Permissions' /\ Order'
<1>1. PICK rejected \in BOOLEAN :
        acRead' = [acRead EXCEPT !.status = "error", !.fetching = FALSE, !.rejected = rejected]
  BY DEF SessionFailed
<1>2. acRead' \in Reads /\ acRead'.data = acRead.data
  BY <1>1 DEF AccountTypeOK, Reads, Statuses
<1>3. acCall' = NoCall /\ UNCHANGED <<acServer, acCmd, acOwn>>
  BY DEF SessionFailed
<1>4. SessionKept
  BY <1>2, <1>3, NoCallKeeps DEF SessionKept
<1>5. CASE UNCHANGED <<acKnown, acRevoked, acList, acLease>>
  BY <1>3, <1>4, <1>5, Kept, ServerStays, UnchangedKeeps
<1>6. CASE /\ UpdateConfirmed(SessionOf(acRead'))
           /\ acLease' = [w \in Work |-> Ended(SessionOf(acRead'), acLease[w])]
  <2> DEFINE next == SessionOf(acRead')
  <2>1. next \in [acc : Accounts, role : Roles]
    BY <1>2, SessionOfTyped
  <2>2. next.role # "user" => next.acc # "nobody"
    BY <1>2 DEF SessionOf, Permissions, ReadsAreNamed, Named
  <2>3. UpdateConfirmed(next) /\ acLease' = [w \in Work |-> Ended(next, acLease[w])]
    BY <1>6
  <2> HIDE DEF next
  <2>4. \A w \in Work : /\ acLease'[w].acc = acLease[w].acc
                        /\ acLease'[w].gen => acLease[w].gen /\ ~LostBy(next)
                        /\ acLease'[w].rev = acLease[w].rev
    BY <2>3, EndedLeases
  <2>5. KnownIsNamed' /\ LeasesAreBound' /\ RevokedIsEnded'
    BY <2>1, <2>2, <2>3, <2>4, UpdateKeeps DEF Permissions
  <2>6. Permissions'
    BY <1>4, <2>5, NamesKept DEF Permissions
  <2>7. \A c \in AcCommands : acLease'[c].acc = acLease[c].acc /\ (acLease'[c].rev => acLease[c].rev)
    BY <2>4, ListIsNoCommand
  <2>8. Order'
    BY <1>2, <1>3, <2>7, NoCallKeeps, OrderKept, ServerStays, UnchangedKeeps
  <2>. QED
    BY <2>6, <2>8
<1>. QED
  BY <1>5, <1>6, Zenon DEF SessionFailed

-----------------------------------------------------------------------------
(* The server answers and decides in the order of its versions.            *)

LEMMA ServeSessionKeeps ==
  ASSUME AccountTypeOK, Permissions, Order, ServeSession
  PROVE  Permissions' /\ Order'
<1>1. PICK kind \in Answers, data \in Sessions :
        /\ acCall' = [acCall EXCEPT !.stage = "served", !.kind = kind, !.data = data]
        /\ data = NoOne \/ (data.acc \in {"me", "peer"} /\ data.ver = acServer.ver)
        /\ kind = "ok" => data # NoOne
  <2>1. PICK lost \in {"ok", "lost"} :
          acCall' = [acCall EXCEPT !.stage = "served",
            !.kind = IF lost = "lost" THEN "lost"
                     ELSE IF acServer.cookie = "none" THEN "refused" ELSE "ok",
            !.data = IF lost = "ok" /\ acServer.cookie # "none"
                     THEN [acc |-> acServer.cookie, ver |-> acServer.ver,
                           role |-> IF acServer.cookie = "me" THEN acServer.role ELSE "admin"]
                     ELSE NoOne]
    BY Zenon DEF ServeSession
  <2> DEFINE kind == IF lost = "lost" THEN "lost"
                     ELSE IF acServer.cookie = "none" THEN "refused" ELSE "ok"
             data == IF lost = "ok" /\ acServer.cookie # "none"
                     THEN [acc |-> acServer.cookie, ver |-> acServer.ver,
                           role |-> IF acServer.cookie = "me" THEN acServer.role ELSE "admin"]
                     ELSE NoOne
  <2>2. kind \in Answers
    BY DEF Answers
  <2>3. data \in Sessions
    BY Fields, NoOneTyped DEF Sessions, Accounts, Roles
  <2>4. data = NoOne \/ (data.acc \in {"me", "peer"} /\ data.ver = acServer.ver)
    BY Fields
  <2>5. kind = "ok" => data # NoOne
    BY Fields DEF NoOne
  <2>6. acCall' = [acCall EXCEPT !.stage = "served", !.kind = kind, !.data = data]
    BY <2>1
  <2> HIDE DEF kind, data
  <2>. QED
    BY <2>2, <2>3, <2>4, <2>5, <2>6
<1>2. acCall'.data = data /\ acCall'.kind = kind
  BY <1>1 DEF AccountTypeOK, Calls
<1>3. UNCHANGED <<acServer, acRead, acKnown, acLease, acCmd, acRevoked, acOwn>>
  BY DEF ServeSession
<1>4. ReadsAreNamed' /\ AnswersAreNamed'
  BY <1>1, <1>2, <1>3 DEF Permissions, ReadsAreNamed, AnswersAreNamed, Named
<1>5. Permissions'
  BY <1>3, <1>4, BoundsKept, UnchangedKeeps DEF Permissions
<1>6. acCall'.data.acc = "me" => acCall'.data.ver = acServer.ver
  BY <1>1, <1>2 DEF NoOne
<1>7. \A c \in AcCommands : acCmd[c].stage = "applying" => acCmd[c].ver <= acServer.ver
  BY DEF Order, ApplyingIsOwn, ApplyingWasSaved, Decided, DecidedByServer
<1>8. /\ acServer.ver \in Nat /\ acOwn \in Nat
      /\ \A c \in AcCommands : acCmd[c].ver \in Nat
  BY Fields, CommandFields DEF AccountTypeOK
<1>9. AnswerKnowsOwn'
  BY <1>3, <1>6, <1>8 DEF Order, AppliedByServer, AnswerKnowsOwn
<1>10. AnswerKnowsApplying'
  BY <1>3, <1>6, <1>7, <1>8 DEF AnswerKnowsApplying
<1>11. /\ ApplyingIsOwn' /\ ApplyingWasSaved' /\ DecidedByServer' /\ AppliedByServer'
       /\ ReadKnowsOwn' /\ DecidedAfterApplied'
  BY <1>3 DEF Order, ApplyingIsOwn, ApplyingWasSaved, OwnRoleRequest, Decided,
              DecidedByServer, AppliedByServer, ReadKnowsOwn, DecidedAfterApplied
<1>12. Order'
  BY <1>9, <1>10, <1>11 DEF Order
<1>. QED
  BY <1>5, <1>12

LEMMA ServedCommand ==
  ASSUME AccountTypeOK, NEW c \in AcCommands, ServeCommand(c)
  PROVE  /\ acCmd'[c].stage = "served" /\ acCmd'[c].req = acCmd[c].req
         /\ acCmd'[c].ver = acServer.ver + 1
         /\ acCmd'[c].kind = "ok" => AcceptsCommand(c)
         /\ \A d \in AcCommands \ {c} : acCmd'[d] = acCmd[d]
<1>1. PICK lost \in BOOLEAN :
        acCmd' = [acCmd EXCEPT ![c].stage = "served",
          ![c].kind = IF ~AcceptsCommand(c) THEN "refused" ELSE IF lost THEN "lost" ELSE "ok",
          ![c].ver = acServer.ver + 1]
  BY Zenon DEF ServeCommand
<1>2. PICK kind \in Answers :
        /\ acCmd' = [acCmd EXCEPT ![c].stage = "served", ![c].kind = kind,
                                  ![c].ver = acServer.ver + 1]
        /\ kind = "ok" => AcceptsCommand(c)
  BY <1>1 DEF Answers
<1> DEFINE decided == [acCmd[c] EXCEPT !.stage = "served", !.kind = kind,
                                       !.ver = acServer.ver + 1]
<1>3. acCmd[c] \in Commands
  BY Fields
<1>4. /\ decided.stage = "served" /\ decided.req = acCmd[c].req /\ decided.kind = kind
      /\ decided.ver = acServer.ver + 1
  BY <1>3 DEF Commands
<1>5. acCmd' = [acCmd EXCEPT ![c] = decided]
  BY <1>2
<1> HIDE DEF decided
<1>6. acCmd'[c] = decided /\ \A d \in AcCommands \ {c} : acCmd'[d] = acCmd[d]
  BY <1>5 DEF AccountTypeOK
<1>. QED
  BY <1>2, <1>4, <1>6

\* A change of the own role that is accepted is the server's next version.
LEMMA ServedVersion ==
  ASSUME AccountTypeOK, NEW c \in AcCommands, ServeCommand(c)
  PROVE  /\ acServer'.ver \in Nat /\ acServer'.ver >= acServer.ver
         /\ AcceptsCommand(c) /\ OwnRoleRequest(c) => acServer'.ver = acServer.ver + 1
<1>1. acServer' = IF AcceptsCommand(c) /\ acServer.cookie = "me"
                  THEN AfterRequest(acCmd[c].req) ELSE acServer
  BY Zenon DEF ServeCommand
<1>2. AfterRequest(acCmd[c].req).ver
        = IF acCmd[c].req \in {"operator", "user", "disable"} THEN acServer.ver + 1
          ELSE acServer.ver
  BY DEF AfterRequest, AccountTypeOK, Servers
<1>3. acServer.ver \in Nat
  BY Fields
<1>4. AcceptsCommand(c) /\ OwnRoleRequest(c)
        => acServer.cookie = "me" /\ acCmd[c].req \in {"operator", "user", "disable"}
  BY DEF AcceptsCommand, OwnRoleRequest
<1>5. CASE AcceptsCommand(c) /\ acServer.cookie = "me"
  <2>1. acServer'.ver = AfterRequest(acCmd[c].req).ver
    BY <1>1, <1>5
  <2>. QED
    BY <1>2, <1>3, <1>4, <2>1
<1>6. CASE ~(AcceptsCommand(c) /\ acServer.cookie = "me")
  <2>1. acServer' = acServer
    BY <1>1, <1>6
  <2>. QED
    BY <1>3, <1>4, <1>6, <2>1
<1>. QED
  BY <1>5, <1>6

LEMMA ServeCommandKeeps ==
  ASSUME AccountTypeOK, Permissions, Order, NEW c \in AcCommands, ServeCommand(c)
  PROVE  Permissions' /\ Order'
<1>1. UNCHANGED <<acRead, acCall, acKnown, acLease, acRevoked, acOwn>>
  BY DEF ServeCommand
<1>2. Permissions'
  BY <1>1, BoundsKept, NamesKept, UnchangedKeeps DEF Permissions
<1>3. /\ acCmd'[c].stage = "served" /\ acCmd'[c].req = acCmd[c].req
      /\ acCmd'[c].ver = acServer.ver + 1
      /\ acCmd'[c].kind = "ok" => AcceptsCommand(c)
      /\ \A d \in AcCommands \ {c} : acCmd'[d] = acCmd[d]
  BY ServedCommand
<1>4. /\ acServer'.ver \in Nat /\ acServer'.ver >= acServer.ver
      /\ AcceptsCommand(c) /\ OwnRoleRequest(c) => acServer'.ver = acServer.ver + 1
  BY ServedVersion
<1>5. /\ acServer.ver \in Nat /\ acOwn \in Nat
      /\ \A d \in AcCommands : acCmd[d].ver \in Nat
  BY Fields, CommandFields DEF AccountTypeOK
<1>6. \A d \in AcCommands : OwnRoleRequest(d)' = OwnRoleRequest(d)
  BY <1>1, <1>3 DEF OwnRoleRequest
<1>7. \A d \in AcCommands : Decided(d)' => \/ Decided(d) /\ acCmd'[d] = acCmd[d]
                                           \/ /\ d = c /\ acCmd'[c].ver = acServer'.ver
                                              /\ acCmd'[c].ver = acServer.ver + 1
  <2>1. ASSUME NEW d \in AcCommands \ {c}, Decided(d)'
        PROVE  Decided(d) /\ acCmd'[d] = acCmd[d]
    BY <1>3, <1>6, <2>1 DEF Decided
  <2>2. ASSUME Decided(c)'
        PROVE  acCmd'[c].ver = acServer'.ver /\ acCmd'[c].ver = acServer.ver + 1
    BY <1>3, <1>4, <1>6, <2>2 DEF Decided
  <2>. QED
    BY <2>1, <2>2
<1>8. DecidedByServer'
  BY <1>4, <1>5, <1>7 DEF Order, DecidedByServer
<1>9. AppliedByServer'
  BY <1>1, <1>4, <1>5 DEF Order, AppliedByServer
<1>10. DecidedAfterApplied'
  BY <1>1, <1>5, <1>7 DEF Order, DecidedAfterApplied, AppliedByServer
<1>11. ApplyingIsOwn' /\ ApplyingWasSaved' /\ AnswerKnowsApplying'
  BY <1>1, <1>3, <1>6 DEF Order, ApplyingIsOwn, ApplyingWasSaved, AnswerKnowsApplying
<1>12. ReadKnowsOwn' /\ AnswerKnowsOwn'
  BY <1>1 DEF Order, ReadKnowsOwn, AnswerKnowsOwn
<1>13. Order'
  BY <1>8, <1>9, <1>10, <1>11, <1>12 DEF Order
<1>. QED
  BY <1>2, <1>13

-----------------------------------------------------------------------------
(* The own role is applied.                                                *)

LEMMA StagedCommand ==
  ASSUME AccountTypeOK, NEW c \in AcCommands, NEW stage,
         acCmd' = [acCmd EXCEPT ![c].stage = stage]
  PROVE  /\ acCmd'[c].stage = stage /\ acCmd'[c].req = acCmd[c].req
         /\ acCmd'[c].kind = acCmd[c].kind /\ acCmd'[c].ver = acCmd[c].ver
         /\ \A d \in AcCommands \ {c} : acCmd'[d] = acCmd[d]
BY Fields DEF AccountTypeOK, Commands

LEMMA AcceptSelfRoleKeeps ==
  ASSUME AccountTypeOK, Permissions, Order, NEW c \in AcCommands, AcceptSelfRole(c)
  PROVE  Permissions' /\ Order'
<1>1. UNCHANGED <<acServer, acKnown, acLease, acRevoked, acOwn>>
  BY DEF AcceptSelfRole
<1>2. acRead' = Reverted /\ acCall' = NoCall
  BY Zenon DEF AcceptSelfRole, CancelAuthentication
<1>3. SessionKept
  BY <1>2, RevertedKeeps
<1>4. Permissions'
  BY <1>1, <1>3, BoundsKept, NamesKept, UnchangedKeeps DEF Permissions
<1>5. /\ acCmd'[c].stage = "applying" /\ acCmd'[c].req = acCmd[c].req
      /\ acCmd'[c].kind = acCmd[c].kind /\ acCmd'[c].ver = acCmd[c].ver
      /\ \A d \in AcCommands \ {c} : acCmd'[d] = acCmd[d]
  BY StagedCommand DEF AcceptSelfRole
<1>6. OwnRoleRequest(c) /\ acCmd[c].kind = "ok" /\ acCmd[c].stage = "served"
  BY Fields, CommandFields DEF AcceptSelfRole, Consequence, OwnRoleRequest
<1>7. \A d \in AcCommands : OwnRoleRequest(d)' = OwnRoleRequest(d)
  BY <1>1, <1>5 DEF OwnRoleRequest
<1>8. \A d \in AcCommands : acCmd'[d].ver = acCmd[d].ver /\ (Decided(d)' => Decided(d))
  BY <1>5, <1>6, <1>7 DEF Decided
<1>9. ApplyingIsOwn' /\ ApplyingWasSaved'
  BY <1>5, <1>6, <1>7 DEF Order, ApplyingIsOwn, ApplyingWasSaved
<1>10. DecidedByServer' /\ AppliedByServer' /\ DecidedAfterApplied'
  BY <1>1, <1>8 DEF Order, DecidedByServer, AppliedByServer, DecidedAfterApplied
<1>11. ReadKnowsOwn'
  BY <1>1, <1>3 DEF Order, SessionKept, ReadKnowsOwn
<1>12. acCall'.data.acc # "me"
  BY <1>2, NoCallKeeps DEF NoOne
<1>13. AnswerKnowsOwn' /\ AnswerKnowsApplying'
  BY <1>12 DEF AnswerKnowsOwn, AnswerKnowsApplying
<1>14. Order'
  BY <1>9, <1>10, <1>11, <1>13 DEF Order
<1>. QED
  BY <1>4, <1>14

LEMMA ReplaceSelfRoleKeeps ==
  ASSUME AccountTypeOK, Permissions, Order, NEW c \in AcCommands, ReplaceSelfRole(c)
  PROVE  Permissions' /\ Order'
<1>1. acCmd' = [acCmd EXCEPT ![c].stage = "saved"] /\ UNCHANGED acServer
  BY DEF ReplaceSelfRole
<1>2. CommandsAdvance
  <2>1. \E stage \in {"saved"} : acCmd' = [acCmd EXCEPT ![c].stage = stage]
    BY <1>1
  <2>. QED
    BY <2>1, StagesAdvance
<1>3. CASE UNCHANGED <<acRead, acKnown, acRevoked, acList, acLease, acHandled, acCall, acOwn>>
  BY <1>1, <1>2, <1>3, Kept, ServerStays, UnchangedKeeps
<1>4. CASE /\ acRead.data.acc = acLease[c].acc
           /\ AcceptSession(Replacing(c))
           /\ acCall' = [acCall EXCEPT !.before = "success", !.was = FALSE]
           /\ acOwn' = acCmd[c].ver
  <2>1. /\ acCmd[c].stage = "applying" /\ OwnRoleRequest(c) /\ acCmd[c].kind = "ok"
    BY DEF ReplaceSelfRole, Order, ApplyingIsOwn, ApplyingWasSaved
  <2>2. acRead.data.acc = "me" /\ acCmd[c].req \in Roles
    BY <1>4, <2>1 DEF OwnRoleRequest, Roles
  <2>3. /\ Replacing(c) \in Reads /\ Replacing(c).data.acc = "me"
        /\ Replacing(c).data.ver = acCmd[c].ver
    BY <2>2, ReplacingTyped
  <2>4. acRead' = Replacing(c)
    BY <1>4, Zenon DEF AcceptSession
  <2>5. /\ KnownIsNamed' /\ LeasesAreBound' /\ RevokedIsEnded'
        /\ \A w \in Work : acLease'[w].acc = acLease[w].acc /\ ~acLease'[w].rev
    BY <1>4, <2>3, AcceptKeeps DEF Permissions
  <2>6. acCall'.stage = acCall.stage /\ acCall'.kind = acCall.kind /\ acCall'.data = acCall.data
    BY <1>4 DEF AccountTypeOK, Calls
  <2>7. ReadsAreNamed' /\ AnswersAreNamed'
    BY <2>3, <2>4, <2>6 DEF Permissions, ReadsAreNamed, AnswersAreNamed, Named
  <2>8. Permissions'
    BY <2>5, <2>7 DEF Permissions
  <2>9. /\ acServer.ver \in Nat /\ acCmd[c].ver \in Nat /\ acCmd[c].ver <= acServer.ver
    BY <2>1, Fields, CommandFields DEF Order, DecidedByServer, Decided
  <2>10. \A d \in AcCommands : acLease'[d].acc = acLease[d].acc /\ ~acLease'[d].rev
    BY <2>5, ListIsNoCommand
  <2>11. \A d \in AcCommands : acCmd'[d].stage \in {"served", "applying"} => acCmd'[d] = acCmd[d]
    BY <1>2 DEF CommandsAdvance
  <2>12. ApplyingIsOwn' /\ ApplyingWasSaved'
    BY <2>10, <2>11 DEF Order, ApplyingIsOwn, ApplyingWasSaved, OwnRoleRequest
  <2>13. DecidedByServer'
    BY <1>1, <2>10, <2>11 DEF Order, DecidedByServer, Decided, OwnRoleRequest
  <2>14. AppliedByServer' /\ ReadKnowsOwn'
    BY <1>1, <1>4, <2>3, <2>4, <2>9 DEF AppliedByServer, ReadKnowsOwn
  <2>15. AnswerKnowsOwn'
    BY <1>4, <2>1, <2>6 DEF Order, AnswerKnowsOwn, AnswerKnowsApplying
  <2>16. AnswerKnowsApplying'
    BY <2>6, <2>11 DEF Order, AnswerKnowsApplying
  <2>17. DecidedAfterApplied'
    BY <2>10 DEF DecidedAfterApplied
  <2>18. Order'
    BY <2>12, <2>13, <2>14, <2>15, <2>16, <2>17 DEF Order
  <2>. QED
    BY <2>8, <2>18
<1>. QED
  BY <1>3, <1>4, Zenon DEF ReplaceSelfRole, Replacing

-----------------------------------------------------------------------------
(* The invariant, and what it shows.                                       *)

LEMMA InitInv ==
  ASSUME AccountInit
  PROVE  IInv
<1>1. Idle \in Commands /\ NoLease \in Leases /\ NoOne \in Sessions /\ NoCall \in Calls
  BY IdleTyped, NoOneTyped, NoCallTyped DEF NoLease, Leases, Accounts
<1>2. acServer \in Servers /\ acServer.ver = 1
  BY DEF AccountInit, Servers, Roles
<1>3. acRead \in Reads /\ ~acRead.fetching /\ acRead.data = NoOne
  BY <1>1 DEF AccountInit, Reads, Statuses
<1>4. acList \in AccountLists
  BY IdleListTyped DEF AccountInit
<1>5. acKnown \in [acc : Accounts, role : Roles] /\ acKnown.role = "user"
  BY DEF AccountInit, Accounts, Roles
<1>6. acLease \in [Work -> Leases] /\ \A w \in Work : acLease[w] = NoLease
  BY <1>1 DEF AccountInit
<1>7. acCmd \in [AcCommands -> Commands] /\ \A c \in AcCommands : acCmd[c] = Idle
  BY <1>1 DEF AccountInit
<1>8. acCall = NoCall /\ acHandled = FALSE /\ acRecover = "no" /\ acApply = "none"
      /\ acMoves = 0 /\ acRevoked = {} /\ acOwn = 0
  BY DEF AccountInit
<1>9. AccountTypeOK
  <2>1. acCall \in Calls /\ acCall.stage = "none"
    BY <1>8, NoCallTyped
  <2>2. acMoves \in 0..AcMoves /\ acRevoked \subseteq AcCommands /\ acOwn \in Nat
    BY <1>8, AccountAssumption
  <2>3. /\ acHandled \in BOOLEAN /\ acRecover \in {"no", "cancelled", "reading"}
        /\ acApply \in AcCommands \cup {"none"}
    BY <1>8
  <2>. QED
    BY <1>2, <1>3, <1>4, <1>5, <1>6, <1>7, <2>1, <2>2, <2>3 DEF AccountTypeOK
<1>10. Permissions
  BY <1>3, <1>5, <1>6, <1>8, NoCallKeeps
  DEF Permissions, ReadsAreNamed, AnswersAreNamed, KnownIsNamed, LeasesAreBound,
      RevokedIsEnded, NoLease
<1>11. NoOne.acc = "nobody" /\ Idle.stage = "idle"
  BY DEF NoOne, Idle
<1>12. Order
  BY <1>2, <1>3, <1>7, <1>8, <1>11, NoCallKeeps
  DEF Order, ApplyingIsOwn, ApplyingWasSaved, DecidedByServer, AppliedByServer, ReadKnowsOwn,
      AnswerKnowsOwn, AnswerKnowsApplying, DecidedAfterApplied, Decided
<1>. QED
  BY <1>9, <1>10, <1>12 DEF IInv

LEMMA NextInv ==
  ASSUME IInv, [AccountNext]_acvars
  PROVE  IInv'
<1>. USE DEF IInv
<1>1. CASE UNCHANGED acvars
  <2>1. UNCHANGED <<acServer, acRead, acCall, acKnown, acLease, acCmd, acRevoked, acOwn>>
    BY <1>1 DEF acvars
  <2>2. Permissions' /\ Order'
    BY <2>1, Kept, ServerStays, UnchangedKeeps
  <2>. QED
    BY <1>1, <2>2 DEF acvars, AccountTypeOK
<1>2. CASE ReadSession
  BY <1>2, ReadSessionTyped, SessionStepsKeep
<1>3. CASE RetryPaused
  BY <1>3, RetryPausedTyped, SessionStepsKeep
<1>4. CASE RefreshAuthentication
  BY <1>4, RefreshAuthenticationTyped, SessionStepsKeep
<1>5. CASE ServeSession
  BY <1>5, ServeSessionTyped, ServeSessionKeeps
<1>6. CASE PrincipalChanges
  BY <1>6, PrincipalChangesTyped, PrincipalChangesKeep
<1>7. CASE SessionAccepted
  BY <1>7, SessionAcceptedTyped, SessionAcceptedKeeps
<1>8. CASE SessionFailed
  BY <1>8, SessionFailedTyped, SessionFailedKeeps
<1>9. CASE ReadList \/ RefreshList
  BY <1>9, FetchListTyped, FetchListKeeps DEF ReadList, RefreshList
<1>10. CASE ServeList
  BY <1>10, ServeListTyped, ListStepsKeep
<1>11. CASE ListArrives
  BY <1>11, ListArrivesTyped, ListStepsKeep
<1>12. ASSUME NEW c \in AcCommands, NEW req \in AcRequests, BeginCommand(c, req)
       PROVE  IInv'
  BY <1>12, BeginCommandTyped, BeginCommandKeeps
<1>13. ASSUME NEW c \in AcCommands, SendCommand(c)
       PROVE  IInv'
  BY <1>13, SendCommandTyped, CommandStepsKeep
<1>14. ASSUME NEW c \in AcCommands, ServeCommand(c)
       PROVE  IInv'
  BY <1>14, ServeCommandTyped, ServeCommandKeeps
<1>15. ASSUME NEW c \in AcCommands, CommandFails(c)
       PROVE  IInv'
  BY <1>15, CommandFailsTyped, CommandStepsKeep
<1>16. ASSUME NEW c \in AcCommands,
              CommandSaved(c) \/ RecheckEnded(c) \/ ApplyReceipt(c) \/ CacheSavedAccount(c)
       PROVE  IInv'
  BY <1>16, PlainStageTyped, CommandStepsKeep
<1>17. ASSUME NEW c \in AcCommands, CommandRechecks(c)
       PROVE  IInv'
  BY <1>17, CommandRechecksTyped, CommandStepsKeep
<1>18. ASSUME NEW c \in AcCommands, AcceptSelfRole(c)
       PROVE  IInv'
  BY <1>18, AcceptSelfRoleTyped, AcceptSelfRoleKeeps
<1>19. ASSUME NEW c \in AcCommands, ReplaceSelfRole(c)
       PROVE  IInv'
  <2>1. acCmd[c].req \in Roles
    BY <1>19 DEF ReplaceSelfRole, Order, ApplyingIsOwn, OwnRoleRequest, Roles
  <2>. QED
    BY <1>19, <2>1, ReplaceSelfRoleTyped, ReplaceSelfRoleKeeps
<1>20. ASSUME NEW c \in AcCommands, InvalidateAccounts(c)
       PROVE  IInv'
  BY <1>20, InvalidateAccountsTyped, InvalidateAccountsKeeps
<1>21. CASE OthersChange
  BY <1>21, OthersChangeTyped, OthersChangeKeeps
<1>. HIDE DEF IInv
<1>. QED
  BY <1>1, <1>2, <1>3, <1>4, <1>5, <1>6, <1>7, <1>8, <1>9, <1>10, <1>11, <1>12, <1>13, <1>14,
     <1>15, <1>16, <1>17, <1>18, <1>19, <1>20, <1>21, Zenon DEF AccountNext

\* Every variable keeps its type, and a read is under way exactly while the query fetches.
THEOREM AccountTypes == AccountSpec => []AccountTypeOK
<1>1. IInv => AccountTypeOK
  BY DEF IInv
<1>. QED
  BY InitInv, NextInv, <1>1, PTL DEF AccountSpec

\* No session read answered before the own role's change was decided is ever shown again
\* once the change was applied, whatever was under way (acceptSelfRole, replaceSelfRole).
THEOREM OwnChangeStays == AccountSpec => []OwnChangeIsNotUndone
<1>1. IInv => OwnChangeIsNotUndone
  BY DEF IInv, Order, ReadKnowsOwn, OwnChangeIsNotUndone
<1>. QED
  BY InitInv, NextInv, <1>1, PTL DEF AccountSpec

\* The role a tab shows for its own account comes from ever later decisions.
AppliedOnlyAdvances == [][acOwn' >= acOwn]_acvars

THEOREM AppliedAdvances == AccountSpec => AppliedOnlyAdvances
<1>1. ASSUME IInv, AccountNext
      PROVE  acOwn' >= acOwn
  <2>1. acOwn \in Nat
    BY <1>1 DEF IInv, AccountTypeOK
  <2>2. ASSUME NEW c \in AcCommands, ReplaceSelfRole(c), acOwn' # acOwn
        PROVE  acOwn' >= acOwn
    <3>1. /\ acCmd[c].stage = "applying" /\ acLease[c].rev /\ acOwn' = acCmd[c].ver
      BY <2>2, Zenon DEF ReplaceSelfRole
    <3>2. Decided(c)
      BY <1>1, <3>1 DEF IInv, Order, ApplyingIsOwn, ApplyingWasSaved, Decided
    <3>. QED
      BY <1>1, <3>1, <3>2 DEF IInv, Order, DecidedAfterApplied
  <2>3. acOwn' = acOwn \/ \E c \in AcCommands : ReplaceSelfRole(c)
    BY <1>1, Zenon DEF AccountNext, ReadSession, RetryPaused, RefreshAuthentication,
       ServeSession, PrincipalChanges, SessionAccepted, SessionFailed, ReadList, RefreshList,
       FetchList, ServeList, ListArrives, BeginCommand, SendCommand, ServeCommand,
       CommandFails, CommandSaved, CommandRechecks, RecheckEnded, AcceptSelfRole,
       ApplyReceipt, CacheSavedAccount, InvalidateAccounts, OthersChange
  <2>. QED
    BY <2>1, <2>2, <2>3
<1>2. ASSUME IInv, UNCHANGED acvars
      PROVE  acOwn' = acOwn
  BY <1>2 DEF acvars
<1>3. IInv /\ [AccountNext]_acvars => [acOwn' >= acOwn]_acvars
  BY <1>1, <1>2
<1>. QED
  BY InitInv, NextInv, <1>3, PTL DEF AccountSpec, AppliedOnlyAdvances

\* Sending a command, and writing its result into the list, need a lease of the current
\* generation; a command whose permission was seen to end never has one again.
LEMMA RevokedStep ==
  ASSUME IInv, AccountNext, NEW c \in acRevoked \cap acRevoked'
  PROVE  /\ acCmd[c].stage = "begun" => acCmd'[c].stage # "sent"
         /\ acCmd[c].stage = "caching" => acCmd'[c].stage # "cached"
<1>1. AccountTypeOK /\ c \in AcCommands /\ ~acLease[c].gen
  BY DEF IInv, Permissions, RevokedIsEnded, AccountTypeOK
<1>2. ~CanCommit(acLease[c])
  BY <1>1 DEF CanCommit, IsCurrent
<1> DEFINE Held == /\ acCmd[c].stage = "begun" => acCmd'[c].stage # "sent"
                   /\ acCmd[c].stage = "caching" => acCmd'[c].stage # "cached"
<1>3. CASE UNCHANGED acCmd
  BY <1>3
<1>4. ASSUME NEW d \in AcCommands, NEW stage \in {"saved", "waiting", "caching", "applying"},
             acCmd' = [acCmd EXCEPT ![d].stage = stage]
      PROVE  Held
  <2>1. acCmd'[d].stage = stage /\ \A e \in AcCommands \ {d} : acCmd'[e] = acCmd[e]
    BY <1>1, <1>4, StagedCommand
  <2>. QED
    BY <1>1, <2>1
<1>5. ASSUME NEW d \in AcCommands, acCmd' = [acCmd EXCEPT ![d] = Idle]
      PROVE  Held
  BY <1>1, <1>5 DEF AccountTypeOK, Idle
<1>6. ASSUME NEW d \in AcCommands, NEW req \in AcRequests, BeginCommand(d, req)
      PROVE  Held
  <2>1. /\ \A e \in AcCommands \ {d} : acCmd'[e] = acCmd[e] \/ acCmd'[e] = Idle
        /\ acCmd'[d] = [Idle EXCEPT !.stage = "begun", !.req = req]
    BY <1>6, Zenon DEF BeginCommand
  <2>2. acCmd'[d].stage = "begun" /\ Idle.stage = "idle"
    BY <2>1 DEF Idle
  <2>. QED
    BY <1>1, <2>1, <2>2
<1>7. ASSUME NEW d \in AcCommands, SendCommand(d)
      PROVE  Held
  <2>1. CASE d = c
    BY <1>1, <1>2, <1>7, <2>1 DEF SendCommand, AccountTypeOK, Idle
  <2>2. CASE d # c
    BY <1>1, <1>7, <2>2 DEF SendCommand, AccountTypeOK
  <2>. QED
    BY <2>1, <2>2
<1>8. ASSUME NEW d \in AcCommands, ServeCommand(d)
      PROVE  Held
  <2>1. acCmd'[d].stage = "served" /\ \A e \in AcCommands \ {d} : acCmd'[e] = acCmd[e]
    BY <1>1, <1>8, ServedCommand
  <2>. QED
    BY <1>1, <2>1
<1>9. ASSUME NEW d \in AcCommands, CacheSavedAccount(d)
      PROVE  Held
  <2>1. CASE d = c
    BY <1>1, <1>2, <1>4, <1>9, <2>1 DEF CacheSavedAccount
  <2>2. CASE d # c
    BY <1>1, <1>9, <2>2 DEF CacheSavedAccount, AccountTypeOK
  <2>. QED
    BY <2>1, <2>2
<1>10. \/ UNCHANGED acCmd
       \/ \E d \in AcCommands :
            \/ acCmd' = [acCmd EXCEPT ![d] = Idle]
            \/ \E stage \in {"saved", "waiting", "caching", "applying"} :
                 acCmd' = [acCmd EXCEPT ![d].stage = stage]
            \/ \E req \in AcRequests : BeginCommand(d, req)
            \/ SendCommand(d) \/ ServeCommand(d) \/ CacheSavedAccount(d)
  <2>1. CASE \/ ReadSession \/ RetryPaused \/ RefreshAuthentication
             \/ ServeSession \/ PrincipalChanges \/ SessionAccepted \/ SessionFailed
             \/ ReadList \/ RefreshList \/ ServeList \/ ListArrives \/ OthersChange
    BY <2>1, Zenon DEF ReadSession, RetryPaused, RefreshAuthentication, ServeSession,
       PrincipalChanges, SessionAccepted, SessionFailed, ReadList, RefreshList, FetchList,
       ServeList, ListArrives, OthersChange
  <2>2. ASSUME NEW d \in AcCommands,
               \/ CommandFails(d) \/ CommandSaved(d) \/ CommandRechecks(d) \/ RecheckEnded(d)
               \/ AcceptSelfRole(d) \/ ReplaceSelfRole(d) \/ ApplyReceipt(d)
               \/ InvalidateAccounts(d)
        PROVE  \/ acCmd' = [acCmd EXCEPT ![d] = Idle]
               \/ \E stage \in {"saved", "waiting", "caching", "applying"} :
                    acCmd' = [acCmd EXCEPT ![d].stage = stage]
    BY <2>2 DEF CommandFails, CommandSaved, CommandRechecks, RecheckEnded, AcceptSelfRole,
                ReplaceSelfRole, ApplyReceipt, InvalidateAccounts
  <2>. QED
    BY <2>1, <2>2, Zenon DEF AccountNext
<1> HIDE DEF Held
<1>11. Held
  BY <1>3, <1>4, <1>5, <1>6, <1>7, <1>8, <1>9, <1>10 DEF Held
<1>. QED
  BY <1>11 DEF Held

\* A command begun under a permission the tab saw end is never sent and never written into
\* the list, even when the permission is granted again (the lifetimes in Authorization).
THEOREM RevokedStaysRevoked == AccountSpec => RevokedWorkStaysRevoked
<1> DEFINE Step == \A c \in acRevoked \cap acRevoked' :
                     /\ acCmd[c].stage = "begun" => acCmd'[c].stage # "sent"
                     /\ acCmd[c].stage = "caching" => acCmd'[c].stage # "cached"
<1>1. IInv /\ [AccountNext]_acvars => [Step]_acvars
  BY RevokedStep
<1> HIDE DEF Step
<1>2. AccountSpec => [][Step]_acvars
  BY InitInv, NextInv, <1>1, PTL DEF AccountSpec
<1>. QED
  BY <1>2, Zenon DEF Step, RevokedWorkStaysRevoked
============================================================================
