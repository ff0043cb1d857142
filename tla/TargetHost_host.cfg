SPECIFICATION Spec
CONSTANTS
  Requests = {{}, {"other_driver", "cuda"}, {"driver", "other_cuda"}}
  RetryBound = 1
  MaxLosses = 1
INVARIANTS TypeOK ScriptsEquipped GuestsListed OwnSurvives HostRestored
