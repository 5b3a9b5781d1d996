------------------------------ MODULE Sequelize ------------------------------
(***************************************************************************)
(* How the ORM of this program writes a row it has loaded.                 *)
(*                                                                         *)
(* `instance.save()` and `instance.update(values)` send an UPDATE of the   *)
(* columns whose new value differs from the value the instance was LOADED  *)
(* with; a column assigned the value it was loaded with is left out of the *)
(* statement, whatever the database holds by then.  Every service of       *)
(* src/src/modules writes rows this way, so every specification that lets  *)
(* two handlers hold a copy of one row uses this operator.                 *)
(***************************************************************************)

\* The column after the save: what the database holds, what the instance was
\* loaded with, what the handler assigned to it.
Changed(stored, loaded, new) == IF new = loaded THEN stored ELSE new

=============================================================================
