---------------------------- MODULE MCReportTools ----------------------------
(* Two turns of one session, the second of which may begin while the first *)
(* is open, and one of another session; a third session has only files.    *)
EXTENDS ReportTools

CONSTANTS t1, t2, t3, s1, s2, s3

TwoSessions == [t \in Turns |-> IF t = t3 THEN s2 ELSE s1]

(* Both sessions that Hermes has turns of fill the registry; queries retry *)
(* and expire; an export meets the file of its own session, or those of    *)
(* the others, in the storage; and a question, a query and an export cross *)
(* each other and a crash.                                                 *)
Nothing == [event \in Events |-> 0]

Loads == {
    [Nothing EXCEPT !.turn = 2, !.ask = 2, !.crash = 1],
    [Nothing EXCEPT !.turn = 3, !.query = 4],
    [Nothing EXCEPT !.turn = 2, !.query = 3, !.tick = 2],
    [Nothing EXCEPT !.turn = 2, !.query = 2, !.tick = 2, !.crash = 1],
    [Nothing EXCEPT !.turn = 2, !.query = 1, !.export = 2, !.crash = 1],
    [Nothing EXCEPT !.turn = 2, !.query = 1, !.export = 1, !.kept = 2],
    [Nothing EXCEPT !.turn = 1, !.query = 2, !.export = 1, !.tick = 2],
    [Nothing EXCEPT !.turn = 2, !.ask = 1, !.query = 1, !.export = 1, !.crash = 1]}

FilesLeft == {<<>>, <<s2, s3>>}
=============================================================================
