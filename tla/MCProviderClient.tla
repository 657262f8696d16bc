--------------------------- MODULE MCProviderClient ---------------------------
(* The instance of ProviderClient that TLC checks. *)
EXTENDS ProviderClient

List(dirs) == [op |-> "list", dirs |-> dirs, leaf |-> "f"]

MCCall == [c \in Client |-> IF c \in Kept THEN {List(<<>>)} ELSE
    {List(<<"d">>), [op |-> "download", dirs |-> <<"d">>, leaf |-> "f"],
     [op |-> "delete", dirs |-> <<>>, leaf |-> "f"], [op |-> "ensure", dirs |-> <<"d">>, leaf |-> "f"]}]

-------------------------------------------------------------------------------
\* What sabre/dav answers for a folder: a response for it and one for each entry,
\* with its properties in any order, those it does not have under a second status.
Answer(e, sizeFirst) ==
    LET size == IF e.size = None THEN <<Tag("getcontentlength"), Tag("end")>>
                ELSE <<Tag("getcontentlength"), Text(e.size), Tag("end")>>
        kind == IF e.folder THEN <<Tag("resourcetype"), Tag("collection"), Tag("end")>>
                ELSE <<Tag("resourcetype"), Tag("end")>>
    IN  <<Tag("response"), Tag("href"), Text(e.name), Tag("end"), Tag("propstat")>>
        \o (IF sizeFirst THEN size \o kind ELSE kind \o size)
        \o <<Tag("status"), Text("200"), Tag("end"), Tag("end"), Tag("/response")>>

Document(entries, sizeFirst) ==
    <<Tag("multistatus")>>
    \o FoldLeft(LAMBDA doc, e : doc \o Answer(e, sizeFirst), <<>>, entries)
    \o <<Tag("end")>>

Itself == [name |-> "folder", size |-> None, folder |-> TRUE]
Entries == [name : {"a", "b"}, size : {1, None}, folder : BOOLEAN]

\* Whatever a folder holds, its listing is read back from the answer, with no
\* size or kind of one entry taken for that of the next; and what is not a
\* multistatus is refused.
ASSUME ListingReadBack ==
    /\ \A list \in BoundedSeq(Entries, 3), first \in BOOLEAN :
        parse_propfind_multistatus(Document(<<Itself>> \o list, first)) = list
    /\ parse_propfind_multistatus(<<Tag("html"), Tag("end")>>) = None
===============================================================================
