-------------------------------- MODULE Popup --------------------------------
(***************************************************************************)
(* The dictionary popup as a whole (src/assets/hoshi_popup): its rendering *)
(* and navigation (DictionaryPopup), the buttons of its entries            *)
(* (EntryButtons), the furigana of their headwords (Furigana), and the     *)
(* selection of their texts (TextSelection).  Each has the pages as its    *)
(* questions need them, so that a behaviour follows one of them from the   *)
(* opening of the popup on.                                                *)
(***************************************************************************)
EXTENDS DictionaryPopup, EntryButtons, Furigana, TextSelection

popupVars == << vars, buttonVars, furiganaVars, selectionVars >>

PopupInit == Init /\ ButtonsInit /\ FuriganaInit /\ SelectionInit

PopupNext ==
    \/ /\ ButtonsInit /\ FuriganaInit /\ SelectionInit
       /\ Next
       /\ UNCHANGED << buttonVars, furiganaVars, selectionVars >>
    \/ /\ Init /\ FuriganaInit /\ SelectionInit
       /\ ButtonsNext
       /\ UNCHANGED << vars, furiganaVars, selectionVars >>
    \/ /\ Init /\ ButtonsInit /\ SelectionInit
       /\ FuriganaNext
       /\ UNCHANGED << vars, buttonVars, selectionVars >>
    \/ /\ Init /\ ButtonsInit /\ FuriganaInit
       /\ SelectionNext
       /\ UNCHANGED << vars, buttonVars, furiganaVars >>

\* Flutter answers, the messages arrive, and frames and timers come.
PopupSpec ==
    /\ PopupInit /\ [][PopupNext]_popupVars
    /\ FairRendering
    /\ WF_buttonVars(Init /\ Answers)

=============================================================================
