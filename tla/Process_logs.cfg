\* The services of the passing run, with the promise of SetupOTelSDK.
CONSTANTS
  Requests = {call, watch}
  Streams = {watch}
SPECIFICATION Spec
INVARIANT ProperCleanup
