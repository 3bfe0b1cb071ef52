------------------------------ MODULE MCShell ------------------------------
(* Small instances of Shell: every short line, and lines that nest pipes,   *)
(* blocks, redirections and background jobs.                                *)
EXTENDS ShellMeaning

MCWords == {"cat", "echo", "f"}
MCTokens == MCWords \cup {"|", ";", "&", "(", ")", "<", ">"}

Short ==
  UNION {[1 .. n -> MCTokens] : n \in 1 .. 2} \cup [1 .. 3 -> MCTokens \ {">"}]
  \cup [1 .. 4 -> {"f", "|", ";", "(", ")"}]

Nested == {
  <<"echo", "f", "|", "cat", "|", "cat">>,
  <<"cat", "f", "|", "echo", "f">>,
  <<"cat", "<", "f", "|", "cat", ">", "f">>,
  <<"(", "echo", "f", ";", "cat", ")", "<", "f", "|", "cat">>,
  <<"(", "cat", "&", ";", "echo", "f", ")", "|", "cat">>,
  <<"echo", "f", "|", "(", "cat", ";", "cat", ")">>,
  <<"cat", "f", "cat">>,
  <<"cat", "f", "f", "f">>,
  <<"(", "(", "cat", ")", "<", "f", ")", ">>", "f", "&">>,
  <<"echo", "f", ">", "f">>,
  <<"cat", "echo", ">", "f">>,
  <<"(", "echo", "f", ";", "echo", "f", ")", "|", "f">>,
  <<"(", "echo", "f", ";", "cat", "echo", ")", "|", "f">>}

MCScripts ==
  {<<l>> : l \in Short \cup Nested}
  \cup {<< <<"cat", "f", "&">>, <<"cd">>, <<"echo", "f">> >>,
        << <<"echo", "f", "|", "cat", "&">>, <<"cat", "<", "f">> >>}

MCParsed == ParsedLines
MCMeant == MeantLines
MCCommands == AllCommands
=============================================================================
