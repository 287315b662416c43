------------------------------- MODULE ToolMap -------------------------------
(***************************************************************************)
(* internal/executor/toolmap.go and the operators that use it: which tool  *)
(* of the client a tool of Cursor is taken for, which variant of Cursor's  *)
(* ToolCall a tool of the client goes back into, and which of the client's *)
(* tools are offered to the model.                                         *)
(*                                                                         *)
(* Names are compared after normalizeToolName, which forgets case and      *)
(* separators: a name of the client is a pair of its normal form and its   *)
(* spelling, and the aliases below stand in normal form.  A field of       *)
(* Cursor ("read_args", "read_tool_call") is its base name, "read".        *)
(***************************************************************************)
EXTENDS Naturals, Sequences, FiniteSets, SequencesExt

nativeToolAliases == [
  shell        |-> <<"bash", "shell", "exec", "run", "terminal", "command", "runcommand",
                     "executecommand", "runterminalcmd">>,
  shell_stream |-> <<"bash", "shell", "exec", "run", "terminal", "command">>,
  read         |-> <<"read", "readfile", "cat", "view", "viewfile", "openfile", "getfile">>,
  write        |-> <<"write", "writefile", "createfile", "create", "putfile">>,
  edit         |-> <<"edit", "editfile", "applypatch", "strreplace", "strreplaceeditor",
                     "patch", "modifyfile">>,
  glob         |-> <<"glob", "find", "filesearch", "findfiles", "fd", "listfiles">>,
  grep         |-> <<"grep", "search", "searchfiles", "ripgrep", "rg", "codesearch",
                     "textsearch">>,
  ls           |-> <<"ls", "listdir", "listdirectory", "listfiles", "dir", "tree">>,
  delete       |-> <<"delete", "rm", "remove", "removefile", "deletefile">>,
  fetch        |-> <<"fetch", "webfetch", "httpfetch", "curl", "openurl", "readurl">>,
  web_search   |-> <<"websearch", "searchweb", "google", "browse">>,
  sem_search   |-> <<"codebasesearch", "semanticsearch", "semsearch", "search">>,
  read_lints   |-> <<"readlints", "diagnostics", "lints", "getdiagnostics">>,
  task         |-> <<"task", "subagent", "spawnagent">>,
  update_todos |-> <<"updatetodos", "todowrite", "settodos">>,
  read_todos   |-> <<"readtodos", "todoread", "gettodos">>]

MappedBases == DOMAIN nativeToolAliases

\* What Cursor may ask the client to execute inline, request_context_args
\* and mcp_args apart (ExecServerMessage.message), and the variants of a
\* completed call (ToolCall.tool).  There is no write among the variants.
ExecBases == {"shell", "write", "delete", "grep", "read", "ls", "diagnostics",
              "shell_stream", "background_shell_spawn", "list_mcp_resources",
              "read_mcp_resource", "fetch", "record_screen", "computer_use",
              "write_shell_stdin"}

ToolCallVariants == {"shell", "delete", "glob", "grep", "read", "update_todos",
  "read_todos", "edit", "ls", "read_lints", "mcp", "sem_search", "create_plan",
  "web_search", "task", "list_mcp_resources", "read_mcp_resource",
  "apply_agent_diff", "ask_question", "fetch", "switch_mode", "exa_search",
  "exa_fetch", "generate_image", "record_screen", "computer_use",
  "write_shell_stdin", "reflect", "setup_vm_environment", "truncated",
  "start_grind_execution", "start_grind_planning"}

toolCallOneofHasField(base) == base \in ToolCallVariants

\* normalizeToolName of the base names that it changes.
Separated == [shell_stream |-> "shellstream", web_search |-> "websearch",
              sem_search |-> "semsearch", read_lints |-> "readlints",
              update_todos |-> "updatetodos", read_todos |-> "readtodos",
              background_shell_spawn |-> "backgroundshellspawn",
              list_mcp_resources |-> "listmcpresources",
              read_mcp_resource |-> "readmcpresource", record_screen |-> "recordscreen",
              computer_use |-> "computeruse", write_shell_stdin |-> "writeshellstdin"]

Normal(base) == IF base \in DOMAIN Separated THEN Separated[base] ELSE base

Aliases(base) == IF base \in MappedBases THEN nativeToolAliases[base] ELSE <<>>

\* The normal forms taken for the tool of Cursor, the preferred ones first.
Tried(base) == <<Normal(base)>> \o Aliases(base)

Equivalents(base) == ToSet(Tried(base))
-----------------------------------------------------------------------------
(* Declared tools.  Unnamed stands for a declaration without a name.       *)

Unnamed == [norm |-> "", spelling |-> ""]
NoTool == [norm |-> "", spelling |-> "none"]

Named(tools) == {i \in DOMAIN tools : tools[i] # Unnamed}

\* Of two names with one normal form the one declared later is kept.
newClientToolIndex(tools) ==
  [n \in {tools[i].norm : i \in Named(tools)} |->
     tools[Max({i \in Named(tools) : tools[i].norm = n})]]

\* The place of the first name tried that the client declared, or 0.
FirstHit(index, base) == SelectInSeq(Tried(base), LAMBDA n : n \in DOMAIN index)

ResolveToAny(index, base) ==
  IF FirstHit(index, base) # 0 THEN index[Tried(base)[FirstHit(index, base)]]
  ELSE IF DOMAIN index = {} THEN NoTool ELSE index[CHOOSE n \in DOMAIN index : TRUE]

\* resolveClientTool: the base name itself, then its aliases in order.
resolveClientTool(index, base) ==
  IF FirstHit(index, base) = 0 THEN NoTool ELSE index[Tried(base)[FirstHit(index, base)]]

\* resolveCursorToolField walks a Go map, in an order that differs from call
\* to call, and returns the first match that is a variant: any of these.
resolveCursorToolField(tool) ==
  {base \in MappedBases : /\ tool.norm # ""
                          /\ tool.norm \in Equivalents(base)
                          /\ toolCallOneofHasField(base)}

OfferedUnlessMapped(tools) ==
  {tools[i] : i \in {j \in Named(tools) : \A b \in MappedBases : tools[j].norm \notin Equivalents(b)}}

\* buildMcpTools: what the request declares as tools of the client.
buildMcpTools(tools) == {tools[i] : i \in {j \in Named(tools) : resolveCursorToolField(tools[j]) = {}}}
-----------------------------------------------------------------------------
(* Rebuilding a call for the history.                                      *)

\* A field of ToolCall, "<base>_tool_call", as a name of a tool: of a call
\* surfaced under Cursor's own name, or one a client declared.  No name in the
\* table ends that way, so one token stands for the normal forms of them all.
FieldForm == "*toolcall"
Raw(base) == [norm |-> FieldForm, spelling |-> base]
IsRaw(tool) == tool.norm = FieldForm

\* buildToolCallFromNameAndArgs: the variant the name is the field of, else
\* one it is an alias for, else the mcp wrapper with the tool's own name,
\* here "client": "mcp" is the variant a call named mcp_tool_call is read as.
RebuiltVariants(tool) ==
  IF IsRaw(tool) THEN {tool.spelling}
  ELSE IF resolveCursorToolField(tool) # {} THEN resolveCursorToolField(tool)
  ELSE {"client"}
=============================================================================
