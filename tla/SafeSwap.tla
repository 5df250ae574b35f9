------------------------------- MODULE SafeSwap -------------------------------
(***************************************************************************)
(* What an update of an agent promises, whatever happens on the way        *)
(* ("rollback-safe"): an image is tried, and when the trial is over the    *)
(* host runs the new image, which has shown that it works, or the image it *)
(* ran before.  Between trials the image never changes.                    *)
(*                                                                         *)
(* The promise is made for a host whose docker does the rollback and whose *)
(* supervisor lives and can write its status (trusted); of any other       *)
(* nothing is said.                                                        *)
(***************************************************************************)
CONSTANT Working        \* the images that connect to the backend

VARIABLES
    trusted,    \* docker can roll back, and the supervisor lives and can write its status
    target,     \* the image to be tried
    trial,      \* an image is being tried
    prior,      \* the image that ran when the trial began, "none" between trials
    image       \* the image the host runs, "none" if it runs none

vars == <<trusted, target, trial, prior, image>>

Init ==
    /\ trial = FALSE
    /\ prior = "none"
    /\ image \in Working

Begin ==
    /\ ~trial
    /\ image # target
    /\ trial' = TRUE
    /\ prior' = image
    /\ UNCHANGED <<trusted, target, image>>

\* The new image takes the place of the old one, or nothing does.
Try ==
    /\ trial
    /\ image' \in {target, "none"}
    /\ UNCHANGED <<trusted, target, trial, prior>>

\* The new image stays, for it works.
Keep ==
    /\ trial
    /\ image = target /\ target \in Working
    /\ trial' = FALSE
    /\ prior' = "none"
    /\ UNCHANGED <<trusted, target, image>>

\* The old image comes back.
Restore ==
    /\ trial
    /\ image' = prior
    /\ trial' = FALSE
    /\ prior' = "none"
    /\ UNCHANGED <<trusted, target>>

Next ==
    \/ Begin \/ Try \/ Keep \/ Restore
    \/ ~trusted /\ UNCHANGED <<trusted, target>>

Spec == Init /\ [][Next]_vars
=============================================================================
