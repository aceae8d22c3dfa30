------------------------------- MODULE MCIntake -------------------------------
\* The cases of Intake: which inputs meet each other.

EXTENDS Intake, MCReviewCases

CONSTANTS m1, m2

McSeeded == (m1 :> {"medium"}) @@ (m2 :> {})

McGlobalPatches ==
    { [enabled |-> FALSE], [auto |-> FALSE, command |-> FALSE], [profile |-> "CONSERVATIVE"],
      [confidence |-> 8], [effort |-> "high"],
      [model |-> m1, effort |-> "medium"], [model |-> None, effort |-> "medium"] }

McRepositoryPatches ==
    { [enabled |-> FALSE], [enabled |-> None], [enabled |-> TRUE, auto |-> TRUE],
      [enabled |-> TRUE, cooldown |-> FALSE], [model |-> m1], [effort |-> "high"] }

\* A case is given by the inputs it has more than none of.
Idle == [forms |-> 0, commands |-> 0, deliveries |-> 0, redeliveries |-> 0, faults |-> 0,
         crashes |-> 0, pushes |-> 0, reviews |-> 0]
Case(forGlobal, forRepository, counts, kinds, events, watched) ==
    [global |-> forGlobal, repository |-> forRepository, left |-> counts @@ Idle,
     kinds |-> kinds, events |-> events, watched |-> watched]

\* Forms and commands alone.
Administered(kinds, counts) == Case(<<>>, <<>>, counts, kinds, {}, FALSE)
\* Deliveries under the first settings.
Sent(events, counts, watched) == Case(<<>>, <<>>, counts, {}, events, watched)
\* One delivery while a form or a command changes the settings.
Changed(forGlobal, forRepository, counts, kinds, event) ==
    Case(forGlobal, forRepository, counts @@ [deliveries |-> 1], kinds, {event}, TRUE)
\* One review.
Reviewed(forGlobal, forRepository) ==
    Case(forGlobal, forRepository, [deliveries |-> 1, reviews |-> 1], {}, {"opened"}, FALSE)

McCases ==
    { Administered(Pages \cup Commands, [forms |-> 2]),
      Administered({"settings_page", "set_default"}, [forms |-> 2, commands |-> 1]),
      Administered({"repository_page"}, [forms |-> 2, commands |-> 1]),
      Administered({}, [commands |-> 5]),
      Sent({"opened"}, [deliveries |-> 2, redeliveries |-> 1], FALSE),
      Sent({"command"}, [deliveries |-> 2, redeliveries |-> 2, faults |-> 1], FALSE),
      Sent({"command"}, [deliveries |-> 1, redeliveries |-> 2, faults |-> 1, crashes |-> 1], TRUE),
      Sent({"opened", "command"}, [deliveries |-> 2, crashes |-> 1], TRUE),
      Sent({"opened", "command"}, [deliveries |-> 2, pushes |-> 1], FALSE),
      Sent({"opened", "synchronize"}, [deliveries |-> 2, pushes |-> 1], TRUE),
      Sent({"opened", "suspended", "restored"}, [deliveries |-> 2], TRUE),
      Changed([model |-> m1], <<>>, [forms |-> 1, commands |-> 1], {"settings_page"}, "opened"),
      Changed([model |-> m1], <<>>, [forms |-> 1, commands |-> 1], {"repository_page"}, "command"),
      Changed(<<>>, [enabled |-> TRUE], [forms |-> 1], Pages \cup {"queue"}, "opened"),
      Reviewed(<<>>, [inline |-> 1, findings |-> 3, severity |-> 1]),
      Reviewed([profile |-> "CONSERVATIVE", categories |-> {"BUG", "PERFORMANCE"}],
               [inline |-> 2, questions |-> FALSE, type |-> "SHOULD_FIX", low |-> TRUE,
                severity |-> 2, findings |-> 2]) }

\* The switch of a repository is overridden, and one form changes what it overrides or
\* lets it inherit.
McSwitchCases ==
    { Changed(<<>>, [enabled |-> TRUE], [forms |-> 1], {"settings_page"}, "opened"),
      Changed(<<>>, [enabled |-> FALSE], [forms |-> 1], {"repository_page"}, "opened") }
=============================================================================
