------------------------------ MODULE MCAnswers ------------------------------
(* Answers and Landing for TLC.                                             *)
EXTENDS Answers

(* A menu whose title names its donor, as the workbook's copy of the title *)
(* does, and whose description names two people more; and a passenger list *)
(* whose row does not name the ship.  The workbook and the donors change   *)
(* in later versions.                                                      *)
Menu == [title |-> <<"ann", "lee">>, narrative |-> << <<"mary", "kate">>, <<>> >>,
         maker |-> <<"lee">>, details |-> <<"paper">>,
         vessel |-> {"empress of japan", "(ii)"}, mentions |-> {"menu"},
         bookShip |-> None, bookMaterial |-> None, readable |-> <<"ann", "lee">>,
         donors |-> {<<"ann", "lee">>}]

List == [title |-> <<"mary">>, narrative |-> << >>, maker |-> <<>>, details |-> <<>>,
         vessel |-> {"other"}, mentions |-> {"menu", "passenger_list"},
         bookShip |-> "ship_i", bookMaterial |-> None, readable |-> <<>>, donors |-> {}]

Article == [title |-> <<"liners">>, url |-> "wiki", body |-> <<"liners", "of", "japan", "line">>,
            licence |-> "cc", inScope |-> TRUE]

Said == "menu" :> <<Menu, [Menu EXCEPT !.bookMaterial = "passenger_list"],
                    [Menu EXCEPT !.donors = {<<"mary">>}]>>
     @@ "list" :> <<List, [List EXCEPT !.bookMaterial = "other_object"]>>
     @@ "article" :> <<Article, [Article EXCEPT !.licence = None, !.inScope = FALSE]>>

Lettered == "ann" :> 3 @@ "lee" :> 3 @@ "of" :> 2 @@ "mary" :> 4 @@ "kate" :> 4
         @@ "--" :> 2 @@ "[redacted]" :> 10 @@ "(untitled)" :> 10

(* A name that no donor column holds.                                       *)
BlockList == {<<"kate">>}

AtHome == "sinclair" :> {"bridge", "deck"} @@ "ming" :> {"deck"}

Polly == "sinclair" :> "Brian" @@ "ming" :> "Arthur"

Written == {<<"a", ".", " ", "a">>, <<" ">>, <<"a", "[1]">>, <<"a", "source 1">>}
=============================================================================
