---------------------------- MODULE MongoDocument ----------------------------
(***************************************************************************)
(* What doc.save() does to a stored document when another call may have    *)
(* written it since doc was read. Mongoose sends only the paths the        *)
(* handler changed, compared with the values it read; every other path     *)
(* keeps what is stored.                                                   *)
(***************************************************************************)

\* The document stored after save(): `seen` is what findOne returned, `doc`
\* what the handler made of it, `stored` what the database holds now.
Saved(stored, seen, doc) ==
  [f \in DOMAIN stored |-> IF doc[f] = seen[f] THEN stored[f] ELSE doc[f]]
=============================================================================
