------------------------------ MODULE MCModSync ------------------------------
(* ModSync on a few files: entries with the enabled fields on, off           *)
(* or left out, a setup file that names a mod, one that ends in a comment.   *)
EXTENDS ModSync

Entry(m, e, n, f) == [id |-> m, enabled |-> e, nested |-> n, first |-> f]
MCConfigs == {<<Entry(2, "absent", "absent", FALSE), Entry(1, "true", "false", TRUE)>>,
              <<Entry(2, "false", "true", TRUE), Entry(1, "absent", "false", FALSE)>>}
MCSetups == {<<[id |-> 1, code |-> FALSE]>>}
=============================================================================
