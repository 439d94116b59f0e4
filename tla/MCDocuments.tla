---------------------------- MODULE MCDocuments ----------------------------
EXTENDS Documents

Node(tag, text, kids, tail) == [tag |-> tag, text |-> text, kids |-> kids, tail |-> tail]

\* A list or a table of one word each, a word in bold, a page break, a paragraph.
Pieces(w) ==
  LET p == Node("para", <<w>>, <<>>, <<>>)
      after == {<<>>, <<w \o "'">>}
  IN UNION {{Node("itemizedlist", <<>>, <<Node("listitem", <<>>, <<p>>, <<>>)>>, t),
             Node("informaltable", <<>>,
               <<Node("row", <<>>, <<Node("entry", <<>>, <<p>>, <<>>)>>, <<>>)>>, t),
             Node("emphasis", <<w>>, <<>>, t),
             Node("beginpage", <<>>, <<>>, t)} : t \in after}

Paragraphs ==
  {Node("para", text, kids, <<>>) : text \in {<<>>, <<"a">>},
     kids \in {<<>>} \cup {<<p>> : p \in Pieces("b")}
                \cup {<<p, q>> : p \in Pieces("b"), q \in Pieces("c")}}

Chapter(kids) ==
  Node("chapter", <<>>, <<Node("title", <<"t">>, <<>>, <<>>)>> \o kids, <<>>)

End == Node("para", <<"z">>, <<>>, <<>>)
Break == Node("beginpage", <<>>, <<>>, <<>>)

MCTrees ==
  {Node("book", <<>>, kids, <<>>) : kids \in
     UNION {{<<p>>, <<Chapter(<<p>>)>>, <<p, Break, End>>, <<Break, Chapter(<<Break, p>>)>>}
            : p \in Paragraphs}}

Paras == [length : {0, 2}, level : {0, 1}, bullet : {"on", "off", "default"}]
MCBodies ==
  [paras : UNION {[1 .. n -> Paras] : n \in 1 .. 3}, bulleted : BOOLEAN,
   styles : {"none", "each", "joined"}]
=============================================================================
