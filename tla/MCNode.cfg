\* Three jobs of one router under fair executors, the loop and the onboarding command.
CONSTANTS
  J1 = J1  J2 = J2  J3 = J3  R1 = R1
  Executors = {e1, e2}
  Jobs = {J1, J2, J3}
  Routers = {R1}
  RouterOf <- OneRouter
  VerifyOf <- SecondVerifies
  NoJob = NoJob
  Nobody = Nobody
  Ghost = Ghost
  DirectEntry = TRUE
  MaxCommands = 2
  MaxFaults = 1
SPECIFICATION FairSpec
INVARIANTS OneExecutor OneLateCommand RouterIsLeftAlone
PROPERTIES RecoversOnlyTheDead RunningEnds
