---------------------------- MODULE MatchReviewMC -----------------------------
(* Two members and a few readings of their three screens.                    *)
EXTENDS MatchReview

Reading(value, warned) == [value |-> value, warned |-> warned]
AssetsRow(claim, suspect, order, rank, assets) ==
  [claim |-> claim, suspect |-> suspect, order |-> order, rank |-> rank, totalAssets |-> assets]

MCMembers == <<"p", "q">>

(* The readings a review may start from: complete, with a doubtful claim,    *)
(* with a number nobody could read, and with whole screens missing.          *)
AllRead == <<AssetsRow("p", FALSE, 1, Reading(1, FALSE), Reading(2, TRUE)),
             AssetsRow("q", TRUE, 2, Reading(2, FALSE), Reading(1, TRUE))>>
OneUnread == <<AssetsRow("q", FALSE, 2, Reading(1, TRUE), Reading(1, FALSE)),
               AssetsRow("q", FALSE, 2, Reading(Unread, FALSE), Reading(1, FALSE))>>
OneNameless == <<[claim |-> Unknown, revenue |-> Reading(1, FALSE)],
                 [claim |-> "p", revenue |-> Reading(2, TRUE)]>>
BothNamed == <<[claim |-> "q", revenue |-> Reading(1, FALSE)],
               [claim |-> "p", revenue |-> Reading(2, TRUE)]>>
Counts(first, count, second, other) ==
  <<[order |-> first, count |-> count], [order |-> second, count |-> other]>>
Payload(assets, revenue, incidents) ==
  [assets |-> assets, revenue |-> revenue, incidents |-> incidents]
MCPayloads ==
  {Payload(AllRead, OneNameless, Counts(1, Reading(1, TRUE), 2, Reading(2, TRUE))),
   Payload(AllRead, BothNamed, Counts(0, Reading(1, TRUE), 2, Reading(Unread, TRUE))),
   Payload(OneUnread, OneNameless, Counts(2, Reading(2, TRUE), 0, Reading(1, FALSE))),
   Payload(NoDraft, OneNameless, NoDraft),
   Payload(NoDraft, NoDraft, Counts(1, Reading(1, TRUE), 2, Reading(2, TRUE)))}
==============================================================================
