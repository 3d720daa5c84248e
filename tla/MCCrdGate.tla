----------------------------- MODULE MCCrdGate -----------------------------
(* A Widget kind: Status of the root, Shown, Ignored and Stores of its struct,  *)
(* a second directory that declares Ignored again, the Items of WidgetList, a   *)
(* field of the struct that only generated code declares, two fields that have  *)
(* the json names of others (Alias that of Shown, Label that of Status), and a  *)
(* Gadget kind, whose State leads to the same struct.                           *)
EXTENDS CrdGate

MCKeyOf == [Status |-> "Status", Shown |-> "Shown", Ignored |-> "Ignored", Twin |-> "Ignored",
            Items |-> "Items", Generated |-> "Generated", Alias |-> "Alias", Label |-> "Label",
            State |-> "State"]
AllFields == DOMAIN MCKeyOf
MCStructOf == [Status |-> "Widget", Label |-> "Widget", Items |-> "WidgetList",
               Shown |-> "WidgetStatus", Ignored |-> "WidgetStatus", Twin |-> "WidgetStatus",
               Generated |-> "WidgetStatus", Alias |-> "WidgetStatus",
               State |-> "Gadget"]
MCDirOf == [Status |-> "api", Shown |-> "api", Ignored |-> "api", Twin |-> "other",
            Items |-> "api", Generated |-> "api", Alias |-> "api", Label |-> "api",
            State |-> "api"]
MCElemOf == [Status |-> "WidgetStatus", Shown |-> "string", Ignored |-> "string", Twin |-> "string",
             Items |-> "Widget", Generated |-> "string", Alias |-> "string", Label |-> "string",
             State |-> "WidgetStatus"]
MCJsonOf == [Status |-> "Status", Shown |-> "Shown", Ignored |-> "Ignored", Twin |-> "Ignored",
             Items |-> "Items", Generated |-> "Generated", Alias |-> "Shown", Label |-> "Status",
             State |-> "State"]
MCTagged == AllFields \ {"Ignored"}
MCInTypesFile == AllFields \ {"Generated"}

Column(root, path) == [root |-> root, path |-> path]
ShownColumn == Column("Widget", <<".", "Status", ".", "Shown">>)
StarColumn == Column("Widget", <<".", "Status", ".", "Shown", "[">>)
AgeColumn == Column("Widget", <<".", "metadata", ".", "creationTimestamp">>)
FilterColumn == Column("Widget", <<".", "Status", ".", "Shown", "[", ".", "type==Ready)]">>)
StrayColumn == [AgeColumn EXCEPT !.root = NoRoot]
StateColumn == Column("Gadget", <<".", "State", ".", "Shown">>)

Trees(declared, alwaysRead, columns, lines) ==
  {t \in [declared : declared, read : SUBSET AllFields, columns : columns, lines : lines] :
     alwaysRead \subseteq t.read /\ t.read \subseteq t.declared}
Verdict(keys) == [key : keys, form : {"verdict"}]

\* Two fields gain and lose readers, a column and verdicts, and one of them or
\* both come and go.
HistoryCommits ==
  Trees({{"Status", "Shown", "Ignored"}}, {"Status"}, {{}, {ShownColumn}},
        SUBSET Verdict({"Shown", "Ignored"}))
  \cup Trees({{"Status"}, {"Status", "Ignored"}}, {"Status"}, {{}}, {{}, Verdict({"Ignored"})})

\* Everything a schema or an exemption file can hold, where nothing but the status
\* is read, or everything.
SchemaCommits ==
  {t \in Trees({{"Status", "Shown"} \cup D : D \in {{}, {"Ignored"}, {"Twin"}, {"Ignored", "Twin"}, {"Items", "Generated"}}},
               {"Status"}, {{StarColumn}}, {{}, Verdict({"Ignored"})}) :
     t.read \in {{"Status"}, t.declared}}
  \cup
  {t \in Trees({{"Status", "Shown", "Ignored"}}, {"Status"}, {{}, {AgeColumn, StarColumn}, {StrayColumn, StarColumn}},
               {{}, {[key |-> "Ignored", form |-> "no reference"]}, {[key |-> "Shown", form |-> "not three columns"]}}) :
     t.read = t.declared /\ (StrayColumn \in t.columns <=> t.lines = {})}

\* The struct of Ignored moved to the other directory, with its verdict.
MovedCommits ==
  Trees({{"Status", "Twin"}}, {"Status"}, {{}}, {Verdict({"Ignored"})})

\* Two fields of one json name on the way of a column or of two, at its end or
\* before it, where one of them leads nowhere.
SharedNameCommits ==
  {t \in Trees({{"Status", "Shown", "Alias"}}, {"Status"}, {{ShownColumn}, {ShownColumn, StarColumn}},
               SUBSET Verdict({"Shown", "Alias"})) : t.read = {"Status"}}
  \cup
  {t \in Trees({{"Status", "Shown", "Label"}}, {"Status"}, {{ShownColumn}}, SUBSET Verdict({"Shown"})) :
     "Shown" \notin t.read}

\* Two kinds that share a struct: a path that shows a field from one root and is
\* lost from the other.
KindCommits ==
  {t \in Trees({{"Status", "Shown", "State"}}, {"Status"},
               {{StateColumn}, {[StateColumn EXCEPT !.root = "Widget"]}, {StateColumn, ShownColumn}},
               SUBSET Verdict({"Shown"})) : t.read = {"Status"}}

AllCommits == HistoryCommits \cup SchemaCommits \cup MovedCommits \cup SharedNameCommits \cup KindCommits

FilterCommits == Trees({{"Status", "Shown"}}, {"Status"}, {{FilterColumn}}, {{}})
=============================================================================
