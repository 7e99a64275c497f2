----------------------------- MODULE MCTextFlow -----------------------------
(* Small instances of TextFlow: three paragraphs under a heading, one of     *)
(* which repeats a word of another, and items of every kind the model makes. *)
EXTENDS TextFlow, TLC

MCParagraphs == << <<"#", "h">>, <<"a", "b">>, <<"c">>, <<"a">> >>

Item(type, section, old, new, after) ==
  [type |-> type, section |-> section, old |-> old, new |-> new, after |-> after]

\* As the prompt asks for, and with the mistakes models make.
MCItems ==
  { Item("add", <<"h">>, <<>>, <<"n">>, <<"a">>),
    Item("add", <<"h">>, <<>>, <<"n">>, <<>>),
    Item("add", <<"z">>, <<>>, <<"n">>, <<>>),
    Item("add", <<"h">>, <<>>, <<"n">>, <<"b", Break, "c">>),
    Item("modify", <<"h">>, <<"a">>, <<"m">>, <<>>),
    Item("modify", <<"h">>, <<"c">>, <<>>, <<>>),
    Item("modify", <<"h">>, <<"b", Break, "c">>, <<"b", Break, "c", "n">>, <<>>),
    Item("modify", <<"h">>, <<"b", Break, "c">>, <<"m">>, <<>>),
    Item("modify", <<"h">>, <<Space, "c">>, <<"m">>, <<>>),
    Item("delete", <<"h">>, <<"a", "b">>, <<>>, <<>>),
    Item("delete", <<"h">>, <<"c">>, <<"m">>, <<>>),
    Item("delete", <<"h">>, <<"c", Break>>, <<>>, <<>>),
    Item("move", <<"h">>, <<"c">>, <<"m">>, <<>>) }
MCEdits == {<<>>, <<"a", "e">>}
=============================================================================
