----------------------------- MODULE UnitOfWork -----------------------------
(***************************************************************************)
(* What SQLAlchemy's session makes of an object that a handler changes: the *)
(* UPDATE names the columns whose value differs from the one that was       *)
(* loaded, and leaves the others as the table has them by then.             *)
(***************************************************************************)

Changed(loaded, new) ==
  [c \in {k \in DOMAIN loaded : new[k] # loaded[k]} |-> new[c]]

Written(row, changed) ==
  [c \in DOMAIN row |-> IF c \in DOMAIN changed THEN changed[c] ELSE row[c]]
=============================================================================
