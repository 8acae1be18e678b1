-------------------------------- MODULE MCSftp --------------------------------
(* Two users, two labels, two paths, two templates and two points; a new   *)
(* machine, and one where a template already serves one of the users.      *)
EXTENDS Sftp, TLC

CONSTANTS u1, u2, a, b, x, y, t1, t2, i1, i2, good, bad

Serving ==
  [Empty EXCEPT
    !.users = {u1},
    !.local[u1][a] = [path |-> x, on |-> TRUE, rw |-> TRUE],
    !.templates = {t1},
    !.mounts[i1] = [tpl |-> t1, label |-> b, path |-> y],
    !.assigned[u1] = {t1},
    !.over[u1][i1] = [on |-> TRUE, rw |-> FALSE]]

MCStarts == {Empty, Serving}
=============================================================================
