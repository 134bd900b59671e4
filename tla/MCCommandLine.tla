--------------------------- MODULE MCCommandLine ----------------------------
(* Lines of every kind that execute tells apart, sudo in sudo among them.  *)
EXTENDS CommandLine

MCWords == {"sudo", "echo", "cat", "ls", "mkdir", "cp", "rm", "rmdir", "panic",
            "f", "-r", "x", ">", ">>"}

MCLines ==
  {<<>>, <<"ls">>, <<"x">>, <<"cat">>, <<"sudo">>, <<"panic">>,
   <<"mkdir", "f">>, <<"cp", "f", "f">>, <<"cp", "-r", "f", "f">>,
   <<"rm", "f">>, <<"rmdir", "f">>, <<"rm", "-r", "f">>,
   <<"sudo", "ls">>, <<"sudo", "x">>, <<"sudo", "cat">>, <<"sudo", "sudo", "ls">>,
   <<"echo", ">">>, <<"echo", ">", "f">>, <<">>", "f">>, <<"x", ">", "f">>}
=============================================================================
