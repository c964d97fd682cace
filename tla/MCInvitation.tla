---------------------------- MODULE MCInvitation ----------------------------
(***************************************************************************)
(* Two landings, one of them shared with another cell, whose ticket has    *)
(* the same code; a reply that accepts (and expires before the ticket) and *)
(* one that declines.  The cell starts without a landing, so that a ticket *)
(* may be prepared before it can be registered.                            *)
(***************************************************************************)
EXTENDS Invitation

CONSTANTS l1, l2, t1, t2, r1, r2, code

MCLandings == {l1, l2}
MCTickets == {t1, t2}
MCOwn == {t1}
MCShared == {l1}
MCReplies == {r1, r2}
MCCode == [t \in MCTickets |-> code]
MCAbout == [r \in MCReplies |-> t1]
MCDecliners == {r2}
MCShortLived == {r1}
MCSaves == {[landingBase |-> l1, fallbackLandingBase |-> l2,
             autoPublish |-> TRUE]}
=============================================================================
