----------------------------- MODULE MCPatchSdk -----------------------------
(***************************************************************************)
(* Mach-O files for TLC.  A file is put together from a choice of load     *)
(* commands; each command that points to data finds it in an area behind   *)
(* the commands, at a place of its own.                                    *)
(***************************************************************************)
EXTENDS PatchSdk, SequencesExt

Zeros(n) == [i \in 1..n |-> 0]

\* A segment with the sections given as <<segment name, name, offset, size>>.
SegmentOf(wide, name, sections, d) ==
  LET field(x) == IF wide THEN <<x, 0>> ELSE <<x>>
      one(s) == <<s[2], 0, 0, 0, s[1], 0, 0, 0>> \o field(7000 + s[3]) \o field(s[4]) \o <<d + s[3]>> \o
                Zeros(IF wide THEN 7 ELSE 6)
      words == FlattenSeq([i \in DOMAIN sections |-> one(sections[i])])
      width == IF wide THEN 18 ELSE 14
  IN  <<IF wide THEN 25 ELSE 1, width + Len(words), name, 0, 0, 0>> \o
      Zeros(width - 8) \o <<Len(sections), 0>> \o words

\* Load commands by name, for data that begins at word d of the object.
Command(name, wide, d) ==
  CASE name = "text"     -> SegmentOf(wide, 101, <<<<101, 111, 0, 2>>>>, d)
    [] name = "stubs"    -> SegmentOf(wide, 101, <<<<101, 112, 2, 2>>, <<101, 150, 0, 1>>, <<101, 114, 4, 2>>>>, d)
    [] name = "unlinked" -> SegmentOf(wide, 0, <<<<101, 113, 26, 2>>, <<101, 115, 28, 2>>>>, d)
    [] name = "data"     -> SegmentOf(wide, 102, <<<<102, 111, 0, 2>>>>, d)
    [] name = "symtab"   -> <<2, 6, d + 6, 2, d + 14, 3>>
    [] name = "dysymtab" -> <<11, 20>> \o Zeros(12) \o <<d + 17, 2>> \o Zeros(4)
    [] name = "starts"   -> <<38, 4, d + 19, 2>>
    [] name = "signature" -> <<29, 4, d + 21, 3>>
    [] name = "split"    -> <<30, 4, d + 24, 1>>
    [] name = "macos"    -> <<36, 4, 10 * 65536 + 14 * 256 + 6, 10 * 65536 + 15 * 256>>
    [] name = "macos16"  -> <<36, 4, 10 * 65536 + 16 * 256, 11 * 65536>>
    [] name = "ios"      -> <<37, 4, 12 * 65536 + 256, 13 * 65536>>
    [] name = "dyldinfo" -> <<High + 34, 12>> \o Zeros(10)
    [] name = "dylib"    -> <<12, 8, 6, 2, 65536, 65536, 120, 0>>
    [] name = "dylinker" -> <<14, 5, 3, 121, 0>>
    [] name = "uuid"     -> <<27, 6, 1, 2, 3, 4>>
    [] name = "source"   -> <<42, 4, 0, 0>>
    [] name = "main"     -> <<High + 40, 6, 16, 0, 0, 0>>
    [] name = "incode"   -> <<41, 4, 0, 0>>
    [] name = "thread"   -> <<5, 6, 4, 2, 0, 0>>
    [] name = "thread1"  -> <<5, 8, 1, 4, 0, 0, 0, 0>>
    [] name = "build"    -> <<50, 6, 1, 655360, 655360, 0>>
    [] name = "upward"   -> <<High + 35, 8, 6, 2, 65536, 65536, 122, 0>>
    [] name = "obsolete" -> <<22, 4, 0, 0>>

\* An object; offsets in it count from its beginning.
Object(wide, filetype, names) ==
  LET head == IF wide THEN 8 ELSE 7
      long == Len(FlattenSeq([i \in DOMAIN names |-> Command(names[i], wide, 0)]))
      commands == FlattenSeq([i \in DOMAIN names |-> Command(names[i], wide, head + long)])
      entry(k) == IF wide THEN <<k, 0, 8000 + k, 0>> ELSE <<k, 0, 8000 + k>>
      symbols == entry(2) \o entry(0) \o Zeros(IF wide THEN 0 ELSE 2)
      data == <<500, 501, 502, 503, 504, 505>> \o symbols \o <<131, 132, 133>> \o <<1, 0>> \o Zeros(11)
  IN  <<IF wide THEN MH_MAGIC_64 ELSE MH_MAGIC, 7, 3, filetype, Len(names), long, 0>> \o
      Zeros(head - 7) \o commands \o data

\* A fat file, its header stored the other way round.
Fat(parts) ==
  LET head == 2 + 5 * Len(parts)
      base(i) == head + Len(FlattenSeq(SubSeq(parts, 1, i - 1)))
      arch(i) == <<-7, -3, -base(i), -Len(parts[i]), -12>>
  IN  <<-FAT_MAGIC, -Len(parts)>> \o FlattenSeq([i \in DOMAIN parts |-> arch(i)]) \o FlattenSeq(parts)

CommandNames == {"text", "stubs", "unlinked", "data", "symtab", "dysymtab", "starts", "signature", "split", "macos",
           "macos16", "ios", "dyldinfo", "dylib", "dylinker", "uuid", "source", "main", "incode",
           "thread", "thread1", "build", "upward", "obsolete"}

\* The combinations whose order matters to what is found.
Longer == {<<"stubs", "symtab", "dysymtab">>, <<"symtab", "dysymtab", "stubs">>,
           <<"build", "symtab", "macos">>, <<"thread1", "starts", "macos">>,
           <<"upward", "starts", "signature">>, <<"macos", "text", "symtab">>, <<"ios", "macos", "macos16">>}

Whole(words) == [words |-> words, length |-> Len(words)]
Cut(words) == {[words |-> words, length |-> n] : n \in 0..Len(words) - 1}

Singles == {Object(wide, 2, <<n>>) : wide \in BOOLEAN, n \in CommandNames}
\* No command twice: a linker emits each of these once.
Pairs == {Object(wide, 6, <<x[1], x[2]>>) : wide \in BOOLEAN, x \in {y \in CommandNames \X CommandNames : y[1] # y[2]}}
Triples == {Object(wide, 1, ns) : wide \in BOOLEAN, ns \in Longer}
Parts == {Object(wide, 2, ns) : wide \in BOOLEAN,
            ns \in {<<"macos">>, <<"text", "macos">>, <<"symtab", "ios">>, <<"build">>, <<"stubs", "symtab", "dysymtab">>}}

\* No Mach-O file; a file type nobody knows; a magic of the other byte order.
Others == {<<12>>, <<MH_MAGIC, 7, 3, 3, 0, 0, 0>>, <<-MH_MAGIC, -7, -3, -2, 0, 0, 0>>,
           Fat(<<<<12, 13, 14, 15, 16, 17, 18>>>>),
           Fat(<<Object(FALSE, 2, <<"text">>), <<-MH_MAGIC, -18, 0, -2, 0, 0, 0>>>>), Fat(<<>>)}

MCFiles ==
  {Whole(f) : f \in Singles \cup Pairs \cup Triples \cup Others} \cup
  {Whole(Fat(<<a, b>>)) : a, b \in Parts} \cup
  UNION {Cut(f) : f \in Singles \cup Others \cup {Fat(<<Object(TRUE, 2, <<"macos">>), Object(FALSE, 2, <<"symtab", "ios">>)>>)}}

MCRequests ==
  {[platform |-> "LC_VERSION_MIN_MACOSX", version |-> v] : v \in {<<10, 14>>, <<10, 0>>, <<11, 20>>}} \cup
  {[platform |-> "LC_VERSION_MIN_IPHONEOS", version |-> <<12, 2>>], [platform |-> "LC_VERSION_MIN_MACOSX", version |-> <<0>>]}
MCList == <<0>>
=============================================================================
