------------------------------ MODULE WebFetch ------------------------------
(***************************************************************************)
(* network.fetch and network.webfetch (tools/network_tools.py, with        *)
(* tools/network_security.py): a checked url is opened, every redirect     *)
(* checked before it is followed, so much of the body is read, and of an   *)
(* HTML page the readable text is extracted by the callbacks of            *)
(* html.parser.                                                            *)
(*                                                                         *)
(* The page is written here as it is read: a well-formed document, whose   *)
(* void elements have no end tag (or are written <br/>) and whose list     *)
(* items may leave theirs out, as HTML allows.  It is cut anywhere when it *)
(* is longer than what is downloaded.                                      *)
(***************************************************************************)
EXTENDS Integers, Sequences, SequencesExt

CONSTANTS Tags,         \* the tags of the pages explored
          MaxTokens,    \* bound: tags and texts of a page
          MaxHops       \* urllib's limit of redirects

SkipTags == {"script", "style", "noscript", "svg", "template"}
BlockTags == {"p", "div", "pre", "br", "table", "tr"}
Headings == {"h1", "h2"}
Lists == {"ul", "ol"}
Voids == {"br", "img"}

WebFetchAssumption ==
    /\ Tags \subseteq SkipTags \cup BlockTags \cup Headings \cup Lists \cup Voids
                     \cup {"li", "a", "title"}
    /\ MaxTokens \in Nat /\ MaxHops \in Nat

VARIABLES
    webRequest,    \* the call: [tool, url, argument, format]
    fetch,      \* where it is: [at, hops, cut, page]
    extractor,  \* _HtmlExtractor
    open,       \* the page: the elements now open, [tag, items, fresh]
    tokens,     \* the page: the tags and texts so far
    texts,      \* the page: its texts so far, [visible, item]
    unended,    \* history: a start tag without an end tag among what is skipped
    result      \* the ToolResult

webVars == <<webRequest, fetch, extractor, open, tokens, texts, unended, result>>

Requests == [tool : {"fetch", "webfetch"}, url : {"public", "private", "malformed"},
             argument : {"good", "bad"}, format : {"markdown", "text"}]
-----------------------------------------------------------------------------
(* The extractor.  A prefix is none, a heading's, a bullet or a number; an *)
(* item of a block is a text, by its number, or a bracket of a link.       *)
Plain == <<>>
Heading == <<"#">>
Bullet == <<"-">>
Number(k) == <<"number", k>>

NewExtractor ==
    [skip |-> 0, pre |-> 0, title |-> FALSE, prefix |-> Plain, link |-> FALSE,
     lists |-> <<>>, counters |-> <<>>, current |-> <<>>, blocks |-> <<>>]

Flush(x) ==
    IF x.current = <<>> THEN x
    ELSE [x EXCEPT !.blocks = Append(@, [prefix |-> x.prefix, items |-> x.current]),
                   !.current = <<>>]

Markdown == webRequest.format = "markdown"

ItemPrefix(x) ==
    IF x.lists /= <<>> /\ Last(x.lists) = "ol" THEN Number(Last(x.counters) + 1) ELSE Bullet
StartsItem(x) ==
    IF ~Markdown THEN x
    ELSE [x EXCEPT !.prefix = ItemPrefix(x),
                   !.counters = IF x.lists /= <<>> /\ Last(x.lists) = "ol"
                                THEN [x.counters EXCEPT ![Len(x.counters)] = @ + 1]
                                ELSE x.counters]

(* handle_starttag: inside what is skipped every start tag counts.         *)
DeeperFlat(x) == x                                      \* a mutant of Deeper
Deeper(x) == [x EXCEPT !.skip = @ + 1]
StartsList(x, tag) == [x EXCEPT !.lists = Append(@, tag), !.counters = Append(@, 0)]
StartTag(x, tag) ==
    LET pre == [x EXCEPT !.pre = IF tag = "pre" THEN @ + 1 ELSE @] IN
    CASE x.skip > 0 -> Deeper(x)
      [] x.skip = 0 /\ tag \in SkipTags -> [x EXCEPT !.skip = 1]
      [] x.skip = 0 /\ tag = "title" -> [x EXCEPT !.title = TRUE]
      [] x.skip = 0 /\ tag \in Headings ->
           [Flush(x) EXCEPT !.prefix = IF Markdown THEN Heading ELSE Plain]
      [] x.skip = 0 /\ tag \in Lists -> StartsList(Flush(x), tag)
      [] x.skip = 0 /\ tag = "li" -> StartsItem(Flush(x))
      [] x.skip = 0 /\ tag = "a" ->
           IF Markdown THEN [x EXCEPT !.link = TRUE, !.current = Append(@, <<"[">>)] ELSE x
      [] x.skip = 0 /\ tag \in BlockTags -> Flush(pre)
      [] OTHER -> x

EndsList(x) ==
    IF x.lists = <<>> THEN x ELSE [x EXCEPT !.lists = Front(@), !.counters = Front(@)]
EndTag(x, tag) ==
    LET pre == [x EXCEPT !.pre = IF tag = "pre" /\ @ > 0 THEN @ - 1 ELSE @] IN
    CASE x.skip > 0 -> [x EXCEPT !.skip = @ - 1]
      [] x.skip = 0 /\ tag = "title" -> [x EXCEPT !.title = FALSE]
      [] x.skip = 0 /\ tag \in Headings \cup {"li"} -> [Flush(x) EXCEPT !.prefix = Plain]
      [] x.skip = 0 /\ tag \in Lists -> EndsList(Flush(x))
      [] x.skip = 0 /\ tag = "a" ->
           IF x.link THEN [x EXCEPT !.link = FALSE, !.current = Append(@, <<"]">>)] ELSE x
      [] x.skip = 0 /\ tag \in BlockTags -> Flush(pre)
      [] OTHER -> x

HandleData(x, n) ==
    IF x.skip > 0 \/ x.title THEN x ELSE [x EXCEPT !.current = Append(@, <<"text", n>>)]
-----------------------------------------------------------------------------
WebFetchInit ==
    /\ webRequest \in Requests
    /\ fetch = [at |-> "asked", hops |-> 0, cut |-> FALSE, page |-> FALSE]
    /\ extractor = NewExtractor /\ open = <<>> /\ tokens = 0 /\ texts = <<>>
    /\ unended = FALSE
    /\ result = [success |-> FALSE, truncated |-> FALSE, content |-> <<>>]

Page == <<extractor, open, tokens, texts, unended>>
FetchAt(stage) == fetch' = [fetch EXCEPT !.at = stage]

(* ensure_public_url: every address of the host is public.                 *)
Allowed(url) == url = "public"

(* _validate_url and the checks of the arguments.                          *)
Checks ==
    /\ fetch.at = "asked"
    /\ FetchAt(IF Allowed(webRequest.url) /\ webRequest.argument = "good" THEN "opening" ELSE "failed")
    /\ UNCHANGED <<webRequest, Page, result>>

(* open_public_url: the answer is a redirect, whose target is checked      *)
(* before it is followed, an error, or a body.                             *)
Redirected(target) ==
    /\ fetch.at = "opening"
    /\ fetch' = [fetch EXCEPT !.hops = @ + 1,
                              !.at = IF Allowed(target) /\ fetch.hops < MaxHops
                                     THEN "opening" ELSE "failed"]
    /\ UNCHANGED <<webRequest, Page, result>>

OpenFails ==
    /\ fetch.at = "opening"
    /\ FetchAt("failed")
    /\ UNCHANGED <<webRequest, Page, result>>

(* The body: cut at the limit or whole, binary or text, of some type; a    *)
(* body without a type is HTML when it looks like it.                      *)
Types == {"html", "text", "other", "binary"}
Tells(cut) == result' = [result EXCEPT !.success = TRUE, !.truncated = cut]

FetchReads(cut, type) ==
    /\ fetch.at = "opening" /\ webRequest.tool = "fetch"
    /\ \/ type = "binary" /\ FetchAt("failed") /\ UNCHANGED result
       \/ type # "binary" /\ FetchAt("told") /\ Tells(cut)
    /\ UNCHANGED <<webRequest, Page>>

WebfetchReads(cut, type) ==
    /\ fetch.at = "opening" /\ webRequest.tool = "webfetch"
    /\ \/ type \in {"binary", "other"} /\ FetchAt("failed") /\ UNCHANGED result
       \/ type = "text" /\ FetchAt("told") /\ Tells(cut)
       \/ /\ type = "html"
          /\ fetch' = [fetch EXCEPT !.at = "page", !.cut = cut, !.page = TRUE]
          /\ UNCHANGED result
    /\ UNCHANGED <<webRequest, Page>>
-----------------------------------------------------------------------------
(* Writing the page.  An element is hidden in one that is skipped.         *)
Hidden == \E i \in DOMAIN open : open[i].tag \in SkipTags
InTitle == \E i \in DOMAIN open : open[i].tag = "title"
Parent == IF open = <<>> THEN "page" ELSE Last(open).tag
Writing == fetch.at = "page" /\ tokens < MaxTokens

(* An element: the items of a list so far, and whether it is an item that  *)
(* has nothing in it yet.                                                  *)
Element(tag) == [tag |-> tag, items |-> 0, fresh |-> tag = "li"]
Fits(tag) ==
    /\ Parent \notin {"title"}
    /\ tag = "li" => Parent \in Lists
    /\ tag \notin {"li"} => Parent \notin Lists
    /\ Parent \in {"a", "h1", "h2", "p"} => tag \in {"a", "br", "img"} /\ tag /= Parent
    /\ tag = "title" => open = <<>>

Writes(x) == extractor' = x /\ tokens' = tokens + 1
Used == IF open = <<>> THEN open ELSE [open EXCEPT ![Len(open)].fresh = FALSE]

StartElement(tag) ==
    /\ Writing /\ tag \notin Voids /\ Fits(tag)
    /\ open' = IF tag = "li"
               THEN Append([open EXCEPT ![Len(open)].items = @ + 1], Element(tag))
               ELSE Append(Used, Element(tag))
    /\ Writes(StartTag(extractor, tag))
    /\ UNCHANGED <<webRequest, fetch, texts, unended, result>>

EndElement ==
    /\ Writing /\ open /= <<>>
    /\ open' = Front(open)
    /\ Writes(EndTag(extractor, Parent))
    /\ UNCHANGED <<webRequest, fetch, texts, unended, result>>

(* The end tag of an item left out: the next one or the list's end ends it. *)
OmitItemEnd ==
    /\ Writing /\ Parent = "li"
    /\ open' = Front(open)
    /\ unended' = (unended \/ Hidden)
    /\ UNCHANGED <<webRequest, fetch, extractor, tokens, texts, result>>

VoidElement(tag, closed) ==
    /\ Writing /\ tag \in Voids /\ Fits(tag)
    /\ LET started == StartTag(extractor, tag) IN
       Writes(IF closed THEN EndTag(started, tag) ELSE started)
    /\ open' = Used
    /\ unended' = (unended \/ (Hidden /\ ~closed))
    /\ UNCHANGED <<webRequest, fetch, texts, result>>

(* A text: the number of the item it begins, when that item is numbered.   *)
ItemNumber ==
    IF Len(open) > 1 /\ Parent = "li" /\ Last(open).fresh /\ open[Len(open) - 1].tag = "ol"
    THEN open[Len(open) - 1].items ELSE 0
Text ==
    /\ Writing /\ Parent \notin Lists
    /\ texts' = Append(texts, [visible |-> ~Hidden /\ ~InTitle, item |-> ItemNumber])
    /\ open' = Used
    /\ Writes(HandleData(extractor, Len(texts) + 1))
    /\ UNCHANGED <<webRequest, fetch, unended, result>>

(* The page ends, or what was downloaded of it does.  Its content is whole *)
(* or, when it is longer than max_chars, a first part of it: the blocks up *)
(* to the b-th, and of that the items up to the i-th.                      *)
CutAt(blocks, b, i) ==
    [c \in 1..b |-> IF c < b THEN blocks[c]
                    ELSE [prefix |-> blocks[b].prefix, items |-> SubSeq(blocks[b].items, 1, i)]]
PageTells(content, long) ==
    result' = [success |-> TRUE, truncated |-> fetch.cut \/ long, content |-> content]

PageEnds ==
    /\ fetch.at = "page" /\ (open = <<>> \/ fetch.cut)
    /\ extractor' = Flush(extractor)
    /\ LET blocks == Flush(extractor).blocks IN
       \/ PageTells(blocks, FALSE)
       \/ \E b \in DOMAIN blocks : \E i \in 0..Len(blocks[b].items) :
            PageTells(CutAt(blocks, b, i), TRUE)
    /\ FetchAt("told")
    /\ UNCHANGED <<webRequest, open, tokens, texts, unended>>

WebFetchNext ==
    \/ Checks
    \/ \E target \in {"public", "private"} : Redirected(target)
    \/ OpenFails
    \/ \E cut \in BOOLEAN, type \in Types : FetchReads(cut, type) \/ WebfetchReads(cut, type)
    \/ \E tag \in Tags : StartElement(tag)
    \/ EndElement
    \/ OmitItemEnd
    \/ \E tag \in Tags, closed \in BOOLEAN : VoidElement(tag, closed)
    \/ Text
    \/ PageEnds

WebFetchSpec == WebFetchInit /\ [][WebFetchNext]_webVars
-----------------------------------------------------------------------------
(* The texts of some items; the items in the page's order; blocks in it.   *)
TextsIn(items) == {items[i][2] : i \in {j \in DOMAIN items : items[j][1] = "text"}}
ItemsInOrder(items) ==
    \A i, j \in DOMAIN items :
      i < j /\ items[i][1] = "text" /\ items[j][1] = "text" => items[i][2] < items[j][2]
TextsOf(blocks) == UNION {TextsIn(blocks[b].items) : b \in DOMAIN blocks}
InOrder(blocks) ==
    /\ \A b \in DOMAIN blocks : ItemsInOrder(blocks[b].items)
    /\ \A b, c \in DOMAIN blocks : b < c =>
         \A m \in TextsIn(blocks[b].items), n \in TextsIn(blocks[c].items) : m < n

(* A block that begins with the first words of a numbered item.            *)
Bears(prefix, items) ==
    \A n \in DOMAIN texts :
      items /= <<>> /\ items[1] = <<"text", n>> /\ texts[n].item > 0 => prefix = Number(texts[n].item)

Visible == {n \in DOMAIN texts : texts[n].visible}
HtmlTold == fetch.at = "told" /\ fetch.page

(* What is told is a first part of what the page shows.                    *)
Gapless == \A n \in TextsOf(result.content), m \in Visible : m < n => m \in TextsOf(result.content)

(* tools/network_tools.py _HtmlExtractor and webfetch: what a page hides   *)
(* is not shown; what it shows is told in order, without a gap, and to its *)
(* end unless the result says it was cut, as long as no tag among what is  *)
(* hidden goes without its end tag; and the first words of the k-th item   *)
(* of a numbered list bear the number k, however lists are nested.         *)
PageTold ==
    HtmlTold =>
      /\ TextsOf(result.content) \subseteq Visible
      /\ InOrder(result.content)
      /\ ~unended => Gapless /\ (result.truncated \/ Visible \subseteq TextsOf(result.content))
      /\ ~unended /\ Markdown =>
           \A b \in DOMAIN result.content : Bears(result.content[b].prefix, result.content[b].items)

(* tools/network_tools.py, of webfetch: a page that is not said to be cut  *)
(* is told with all its visible text.                                      *)
VisibleTextKept ==
    HtmlTold /\ ~result.truncated => Visible \subseteq TextsOf(result.content)
=============================================================================
