------------------------------ MODULE MCConfig ------------------------------
(***************************************************************************)
(* ConfigLoader against the meaning of the same lines read as YAML, by     *)
(* their indentation, over every document that can be written with a small *)
(* set of lines.                                                           *)
(***************************************************************************)
EXTENDS ConfigLoader

CONSTANTS
  Headers,    \* keys of the header lines
  Pairs,      \* <<key, value>> of the lines with a value
  Items,      \* values of the list items
  MaxLines    \* lines of a document

-----------------------------------------------------------------------------
(* Documents.  Parent, Path: where a line stands, by indentation.          *)

Above(d, i) == {j \in 1..(i - 1) : d[j].indent < d[i].indent}

Parent(d, i) == IF Above(d, i) = {} THEN 0 ELSE Max(Above(d, i))

Path(d, i) ==
  LET p == Parent(d, i)
      g == IF p = 0 THEN 0 ELSE Parent(d, p)
  IN  CASE p = 0           -> <<d[i].key>>
        [] p # 0 /\ g = 0 -> <<d[p].key, d[i].key>>
        [] p # 0 /\ g # 0 -> <<d[g].key, d[p].key, d[i].key>>

Lines ==
  [indent : 0..2, kind : {"header"}, key : Headers, value : {NoText}]
    \cup {[indent |-> n, kind |-> "pair", key |-> p[1], value |-> p[2]] : n \in 0..2, p \in Pairs}
    \cup [indent : 1..2, kind : {"item"}, key : {NoText}, value : Items]

\* What YAML lets follow: one level deeper only below a header; a list has only
\* items and a mapping none; no key twice in a mapping.
Follows(d, line) ==
  LET new == Append(d, line)
      n   == Len(new)
      up  == Parent(new, n)
      siblings == {j \in 1..Len(d) : d[j].indent = line.indent /\ Parent(d, j) = up}
  IN  /\ IF d = <<>> THEN line.indent = 0
         ELSE line.indent <= Last(d).indent + (IF Last(d).kind = "header" THEN 1 ELSE 0)
      /\ \A j \in siblings :
           /\ (d[j].kind = "item") = (line.kind = "item")
           /\ line.kind # "item" => d[j].key # line.key

-----------------------------------------------------------------------------
(* The reference meaning of a document.                                    *)

HasHeader(d, path) == \E i \in DOMAIN d : d[i].kind = "header" /\ Path(d, i) = path

PairsAt(d, path) == {i \in DOMAIN d : d[i].kind = "pair" /\ Path(d, i) = path}

ValueAt(d, path) == d[CHOOSE i \in PairsAt(d, path) : TRUE].value

\* The mappings below the section s.
Children(d, s) ==
  {d[i].key : i \in {i \in DOMAIN d : d[i].kind = "header" /\ Path(d, i) = <<s, d[i].key>>}}

SymbolItems(d) ==
  {i \in DOMAIN d : d[i].kind = "item" /\ Path(d, i) = <<"trading", "symbols", d[i].key>>}

FirstItems(d) ==
  {i \in SymbolItems(d) : \A j \in SymbolItems(d) : d[j].value = d[i].value => i <= j}

\* The values of the items without repetitions, in the order of their first ones.
ListsItems(list, d) ==
  \E at \in [DOMAIN list -> FirstItems(d)] :
    /\ Range(at) = FirstItems(d)
    /\ \A k, m \in DOMAIN list : k < m => at[k] < at[m]
    /\ \A k \in DOMAIN list : list[k] = d[at[k]].value

Enabled(d, x) ==
  LET path == <<"exchanges", x, "enabled">>
  IN  PairsAt(d, path) # {} /\ ParseBool(ValueAt(d, path))

FeesOf(d, x) ==
  LET base == IF x \in DOMAIN DefaultConfig.fees THEN DefaultConfig.fees[x] ELSE Fee(0, 0)
      At(key) == IF PairsAt(d, <<"fees", x, key>>) = {} THEN base[key]
                 ELSE Thousandths[ValueAt(d, <<"fees", x, key>>)]
  IN  Fee(At("maker_pct"), At("taker_pct"))

Setting(d, s, k) ==
  IF PairsAt(d, <<s, k>>) = {} THEN DefaultSettings[s][k]
  ELSE Parsed(<<s, k>>, ValueAt(d, <<s, k>>))

SettingsOf(d) ==
  [s \in DOMAIN DefaultSettings |-> [k \in DOMAIN DefaultSettings[s] |-> Setting(d, s, k)]]

ExchangesOf(d) ==
  LET listed == Children(d, "exchanges")
  IN  [x \in DOMAIN DefaultConfig.exchanges \cup listed |->
         IF x \in listed THEN Enabled(d, x) ELSE DefaultConfig.exchanges[x]]

AllFeesOf(d) == [x \in DOMAIN DefaultConfig.fees \cup Children(d, "fees") |-> FeesOf(d, x)]

Means(d, config) ==
  /\ config.settings = SettingsOf(d)
  /\ IF HasHeader(d, <<"trading", "symbols">>) THEN ListsItems(config.symbols, d)
     ELSE config.symbols = DefaultConfig.symbols
  /\ config.exchanges = ExchangesOf(d)
  /\ config.fees = AllFeesOf(d)

\* The shape of the configuration files of the repository: sections at the margin,
\* under two of them exchanges with a name, `symbols` under trading, values where they
\* belong.
WellPlaced(d, i) ==
  LET path == Path(d, i) IN
  CASE d[i].kind = "header" ->
         \/ Len(path) = 1 /\ path[1] \in Sections
         \/ path = <<"trading", "symbols">>
         \/ /\ Len(path) = 2 /\ path[1] \in {"exchanges", "fees"}
            /\ path[2] \notin Sections \cup {"symbols", NoText}
    [] d[i].kind = "pair" ->
         IF path[1] \in {"exchanges", "fees"} THEN Len(path) = 3 ELSE Len(path) = 2
    [] d[i].kind = "item" -> path = <<"trading", "symbols", d[i].key>>

Next ==
  /\ Len(doc) < MaxLines
  /\ \E line \in Lines :
       /\ Follows(doc, line)
       /\ WellPlaced(Append(doc, line), Len(doc) + 1)
       /\ Read(line)

Spec == Init /\ [][Next]_vars

-----------------------------------------------------------------------------
(* Properties.                                                             *)

\* The loader, which forgets the indentation and keeps three variables instead,
\* gives a document the meaning it has as YAML on top of the defaults.
LoadedAsWritten == ~failed => Means(doc, cfg)

\* Loading fails exactly if a number in it is none.
FailsOnBadNumber ==
  failed <=> \E i \in DOMAIN doc :
    LET path == Path(doc, i)
    IN  /\ doc[i].kind = "pair"
        /\ \/ ~Parses(path, doc[i].value)
           \/ /\ path[1] = "fees" /\ path[3] \in {"maker_pct", "taker_pct"}
              /\ doc[i].value \notin DOMAIN Thousandths

-----------------------------------------------------------------------------
SmallNumbers == [t \in {"5", "0.5"} |-> IF t = "5" THEN 5000 ELSE 500]

SmallWhole == [t \in {"5"} |-> 5]

SomePairs ==
  {<<"mode", "live">>, <<"enabled", "true">>, <<"enabled", "no">>, <<"taker_pct", "0.5">>,
   <<"taker_pct", "x">>, <<"max_hold_time_minutes", "5">>, <<"max_hold_time_minutes", "0.5">>}
=============================================================================
