---------------------------- MODULE MCPhase3Jobs ----------------------------
(* One job, a pilot or a screen, of two images and two backends, and two    *)
(* processes that take turns at it, a worker of the controller and a runner *)
(* started by hand.                                                        *)
EXTENDS Phase3Jobs, TLC

=============================================================================
