----------------------------- MODULE MCDraftDesk -----------------------------
(* One draft, of a work the library has unnumbered.                         *)
EXTENDS DraftDesk

TheShelf == 1 :> [title |-> "t", volume |-> 0, text |-> "old", valid |-> TRUE]
TheBooks == {[title |-> "t", volume |-> 0, text |-> "new", valid |-> TRUE],
             [title |-> "t", volume |-> 1, text |-> "new", valid |-> FALSE]}
TheForms == {[as |-> "new", volume |-> 0], [as |-> "new", volume |-> 1],
             [as |-> "volume", work |-> "t", volume |-> 1],
             [as |-> "replace", id |-> 1, confirm |-> FALSE]}
=============================================================================
