----------------------------- MODULE MCContent -----------------------------
(* Content for TLC: sticks of a few folders, from a choice of listings.    *)
EXTENDS Content

MCCodes    == {"en", "zh", "zh-CN"}
MCTransCode == [c \in MCCodes |-> IF c = "en" THEN "en" ELSE "zh-CN"]
MCBaseCode == [c \in MCCodes |-> IF c = "en" THEN "en" ELSE "zh"]
MCNameBegins ==
  [n \in MCCodes \cup {"Bible", "Bible2", "part"} |->
     {n} \cup IF n = "Bible2" THEN {"Bible"} ELSE IF n = "zh-CN" THEN {"zh"} ELSE {}]

MCFolders == {"content", "en", "zh", "zh-CN", "Bible", "Bible2", "part"}
\* Of the files with different contents only a.mp3 gets a name made up.
MCFileSlug ==
  <<"a.mp3">> :> "a-mp3" @@ <<"b.mp3">> :> "b-mp3" @@ <<"a-Bible.mp3">> :> "a-Bible-mp3"
    @@ <<Zim>> :> "z-zim"
    @@ [m \in {<<"a.mp3", b, 1>> : b \in MCFolders} |-> "a-" \o m[2] \o "-mp3"]
    @@ [m \in {<<"a.mp3", b, 2>> : b \in MCFolders} |-> "a-" \o m[2] \o "-2-mp3"]
MCCollectionSlug == [b \in MCFolders |-> "collection-" \o b]

\* 1 and 7 differ between the first and the last 64 KB only.
MCLooks == [x \in 1 .. 7 |-> IF x = 7 THEN 1 ELSE x]

Places ==
  {<<"en">>, <<"zh">>, <<"zh-CN">>, <<"Bible">>, <<"Bible2">>,
   <<"Bible", "part">>, <<"zh", "Bible">>, <<"zh-CN", "Bible">>,
   <<"zh", "Bible", "part">>, <<"Bible", "part", "part">>}

One   == [f \in {"a.mp3"} |-> 1]
Many  == [f \in {"a.mp3", "b.mp3", "a-Bible.mp3"} |-> 7]
Site  == [f \in {"index.html", "a.mp3"} |-> 3]
Htm   == [f \in {"index.htm", "a.mp3"} |-> 3]
Page  == [f \in {"page.html"} |-> 4]
Entry == [f \in {"home.html", "a.mp3"} |-> 5]
AnApp == [f \in {App} |-> 6]
AZim  == [f \in {Zim, "a.mp3"} |-> 2]
MCListings == {<<>>, One, Many, Site, Htm, Page, Entry, AZim, AnApp}

Whole(ps) == \A p \in ps : Len(p) > 1 => Front(p) \in ps
MCShapes == {ps \in UNION {kSubset(n, Places) : n \in 1 .. 3} : Whole(ps)}
MCRootListings == {<<>>, [f \in {".language", "a.mp3"} |-> IF f = "a.mp3" THEN 1 ELSE "zh"]}
=============================================================================
