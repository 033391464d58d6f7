---------------------------- MODULE MCFredStartup ----------------------------
(***************************************************************************)
(* Small instances of FredStartup. Three is the limit of everything, so two *)
(* partitions, hw-tasks and slots fit; two data buffers do.                 *)
(***************************************************************************)
EXTENDS FredStartupInv

\* Empty; one slot, of a number beyond Word, and a partition without one, whose line
\* lacks the number; the same, whose number is negative as an int; both partitions in
\* use (which fills the table of nine sources), between a comment and a blank line; more
\* slots than a partition takes; more than the table takes; too many partitions.
MCArchFiles ==
    { <<>>,
      << <<"p1", 4097>>, <<"p2">> >>,
      << <<"p2", 1>>, <<"p1", 4095>> >>,
      << <<"#", "name">>, <<"p1", 2>>, <<>>, <<"p2", 1>> >>,
      << <<"p1", 3>> >>,
      << <<"p1", 2>>, <<"p2", 2>> >>,
      << <<"p1", 1>>, <<"p2", 1>>, <<"p3", 1>> >> }

Line(ms, name, sizes) == <<"t", 1, ms, name, "bits">> \o sizes

\* No partition is called p9: an unknown name, alone, after a known one, before one.
\* Timeouts: none; one that fits; in microseconds, one that wraps to 0 and one that
\* wraps to something else; one that is already 0 in 32 bits. Buffers up to the limit
\* and one beyond it, one of them larger than 32 bits hold. Lines that end before the
\* path, and before the partition; too many hw-tasks.
MCTaskFiles ==
    { <<>>,
      << Line(0, "p9", <<7>>) >>,
      << <<>>, Line(2, "p1", <<7, 8>>), <<"#">>, Line(512, "p2", <<>>) >>,
      << Line(5, "p2", <<4103>>), Line(4096, "p9", <<>>) >>,
      << Line(3, "p9", <<>>), Line(3, "p1", <<>>) >>,
      << Line(3, "p1", <<7, 8, 5>>) >>,
      << <<"t", 1, 3, "p2">> >>,
      << <<"t", 1>> >>,
      << Line(3, "p1", <<>>), Line(3, "p1", <<>>), Line(3, "p1", <<>>) >> }

MCModes == {"normal", "rcfg_test", "hw_tasks_test"}
MCNormalMode == {"normal"}

=============================================================================
