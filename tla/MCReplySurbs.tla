---------------------------- MODULE MCReplySurbs ----------------------------
(***************************************************************************)
(* The scenarios of the run: two fragments to send in one or two replies,  *)
(* three SURBs to start with, of which one can be spent on data, and the   *)
(* faults named.                                                           *)
(***************************************************************************)
EXTENDS ReplySurbs

None == [surbs |-> 3, replies |-> {1, 2}, messages |-> 1, delays |-> 0,
         losses |-> 0, topology |-> 0, refusals |-> 0, crashes |-> 0,
         shutdowns |-> 0, database |-> 0, halfDays |-> 0, overtakes |-> 0,
         patient |-> FALSE]

MCEnvironments == {
    [None EXCEPT !.losses = 1, !.patient = TRUE],
    [None EXCEPT !.topology = 1, !.patient = TRUE],
    [None EXCEPT !.delays = 1, !.patient = TRUE],
    [None EXCEPT !.messages = 2, !.patient = TRUE],
    [None EXCEPT !.surbs = 1, !.patient = TRUE],
    [None EXCEPT !.losses = 2, !.patient = TRUE, !.surbs = 2, !.replies = {1}],
    [None EXCEPT !.overtakes = 1],
    [None EXCEPT !.overtakes = 1, !.halfDays = 1, !.replies = {1}],
    [None EXCEPT !.refusals = 1, !.delays = 1],
    [None EXCEPT !.crashes = 1, !.shutdowns = 1, !.surbs = 2, !.replies = {1}],
    [None EXCEPT !.shutdowns = 2, !.database = 1, !.replies = {1}],
    [None EXCEPT !.halfDays = 2],
    [None EXCEPT !.halfDays = 1, !.losses = 1, !.replies = {1}],
    [None EXCEPT !.halfDays = 2, !.shutdowns = 1, !.surbs = 4, !.replies = {1}],
    [None EXCEPT !.losses = 1, !.crashes = 1, !.replies = {1}]
    }
=============================================================================
