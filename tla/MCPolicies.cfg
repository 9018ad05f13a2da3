SPECIFICATION Spec
CONSTANTS
  Special = c1
  Capabilities = {c1, c2}
  Method = Method
  NoMessage = NoMessage
  Unmapped = Unmapped
  Conditions = {"set", "unset", "leaks", "clean"}
  OutputConditions = {"leaks", "clean"}
  Absent = {"unset", "clean"}
  Slugs = {s1, s2}
  Listings <- SomeListings
  Clients <- SomeClients
  Fields <- SomeFields
  Arguments <- SomeArguments
  Inputs <- SomeInputs
  Queries <- SomeQueries
  Configurations <- SomeConfigurations
INVARIANT OnlyPermittedIsForwarded
INVARIANT AnswersAreGuarded
INVARIANT HiddenIsUncallable
INVARIANT ExternalVerdictsFailClosed
INVARIANT UnusedCanGo
INVARIANT RisksAreReported
INVARIANT OnboardedIsGuarded
INVARIANT ImportedServersRun
INVARIANT ArgumentsAreChecked
INVARIANT SqlReadsTheSame
CHECK_DEADLOCK FALSE
